---- MODULE Spec2Model ----
(***************************************************************************)
(* Commodore 64 emulator core: the banked 64 KiB memory subsystem          *)
(* (src/src/memory/memory.c) and the MOS 6510 interpreter                  *)
(* (src/src/cpu/cpu.c).                                                    *)
(*                                                                         *)
(* The byte arrays memory[], basic_rom[], kernal_rom[] and char_rom[] are  *)
(* kept as sparse functions: an index that is absent holds the array's     *)
(* fill byte (0x00 for memory and char_rom, 0xEA for the two 8K ROMs).     *)
(* A page-table entry memory_read_map[i] is the name of the buffer the C   *)
(* pointer points into; update_memory_maps() only ever stores the pointers *)
(* &memory[i << 8], &basic_rom[(i - 0xA0) << 8],                           *)
(* &kernal_rom[(i - 0xE0) << 8] and &char_rom[(i - 0xD0) << 8], so the     *)
(* buffer and the page fix the offset (PageBase).                          *)
(***************************************************************************)
EXTENDS Integers, Sequences, FiniteSets, TLC

VARIABLES
    ram,                 \* memory[MEMORY_SIZE]
    basic_rom,           \* basic_rom[8192]
    kernal_rom,          \* kernal_rom[8192]
    char_rom,            \* char_rom[4096]
    basic_rom_enabled,
    kernal_rom_enabled,
    char_rom_enabled,
    io_enabled,
    memory_read_map,     \* memory_read_map[256]
    cpu,                 \* static CPU cpu
    cycles,              \* static uint32_t cycles
    hist,                \* the calls made on the core since construction
    target_cycles,       \* cpu_execute's local, <<>> outside cpu_execute
    dump,                \* memory_dump's locals, <<>> outside memory_dump
    alive                \* FALSE once a signal has ended the process

vars == <<ram, basic_rom, kernal_rom, char_rom, basic_rom_enabled,
          kernal_rom_enabled, char_rom_enabled, io_enabled,
          memory_read_map, cpu, cycles, hist, target_cycles, dump, alive>>

-----------------------------------------------------------------------------
(* Program constants *)

MEMORY_SIZE == 65536
BASIC_ROM_SIZE == 8192
KERNAL_ROM_SIZE == 8192
CHAR_ROM_SIZE == 4096
BASIC_ROM_START == 40960
BASIC_ROM_END == 49151
KERNAL_ROM_START == 57344
KERNAL_ROM_END == 65535
IO_REGION_START == 53248
IO_REGION_END == 57343
STACK_PAGE == 256
NMI_VECTOR == 65530
RESET_VECTOR == 65532
IRQ_VECTOR == 65534

(* Bounds of the model *)

MaxOps == 3          \* calls per run of the general specification
MaxApiOps == 2       \* calls per run of the stack/status specification
MaxSteps == 6        \* instructions per run of the program specification
MaxIrqOps == 3       \* calls per run of the interrupt specification
MaxOpSteps == 2      \* instructions per run of the opcode specification
MaxRunOps == 6       \* calls, steps and returns per run of the cpu_execute specification
MaxInsSteps == 5     \* instructions per run of the instruction specification
MaxMemOps == 4       \* calls per run of the memory specification
MaxStackOps == 4     \* calls per run of the stack specification
MaxBootOps == 3      \* calls per run of the start-up specification
MaxBankOps == 3      \* calls per run of the banking specification
MaxAddrSteps == 1    \* steps per run of the indexed-addressing specification
MaxCycOps == 2       \* calls per run of the cycle-counter specification
MaxFlagOps == 2      \* host calls per run of the flag specification
MaxDumpOps == 5      \* calls and loop turns per run of the memory_dump specification
MaxRamOps == 6       \* calls per run of the specification of the RAM under the ROMs

-----------------------------------------------------------------------------
(* Fixed-width arithmetic *)

U8(n) == n % 256
U16(n) == n % 65536
Bit(v, k) == (v \div (2 ^ k)) % 2
Low3(v) == v % 8
Hi(w) == (w \div 256) % 256
Lo(w) == w % 256
Word(lo, hi) == lo + 256 * hi
B2I(b) == IF b THEN 1 ELSE 0
\* A uint32_t is kept as the pair <<high 16 bits, low 16 bits>>.
U32(n) == <<(n \div 65536) % 65536, n % 65536>>
Add32(a, b) ==
    LET lo == a[2] + b[2]
        hi == a[1] + b[1] + (lo \div 65536)
    IN <<hi % 65536, lo % 65536>>
Less32(a, b) == a[1] < b[1] \/ (a[1] = b[1] /\ a[2] < b[2])
\* the offset byte taken as unsigned, the (int8_t) cast left out
S8_unsigned(b) == b

\* (int8_t) conversion of a byte
S8(b) == IF b >= 128 THEN b - 256 ELSE b

(* Sparse byte arrays *)

Get(m, a, fill) == IF a \in DOMAIN m THEN m[a] ELSE fill
Put(m, a, v, fill) ==
    IF v = fill
    THEN [x \in (DOMAIN m) \ {a} |-> m[x]]
    ELSE [x \in (DOMAIN m) \cup {a} |-> IF x = a THEN v ELSE m[x]]
Empty == [x \in {} |-> 0]

RECURSIVE PutSeq(_, _, _, _, _)
\* memcpy(&m[a], data, n)
PutSeq(m, a, data, n, fill) ==
    IF n = 0 THEN m
    ELSE Put(PutSeq(m, a, data, n - 1, fill), a + n - 1, data[n], fill)

-----------------------------------------------------------------------------
(* Memory subsystem.  A machine state s is a record with one field per     *)
(* variable of the core.                                                   *)

Cur == [ram |-> ram, basic_rom |-> basic_rom, kernal_rom |-> kernal_rom,
        char_rom |-> char_rom, basic_rom_enabled |-> basic_rom_enabled,
        kernal_rom_enabled |-> kernal_rom_enabled,
        char_rom_enabled |-> char_rom_enabled, io_enabled |-> io_enabled,
        memory_read_map |-> memory_read_map, cpu |-> cpu, cycles |-> cycles]

Commit(s) ==
    /\ alive
    /\ alive' = alive
    /\ ram' = s.ram
    /\ basic_rom' = s.basic_rom
    /\ kernal_rom' = s.kernal_rom
    /\ char_rom' = s.char_rom
    /\ basic_rom_enabled' = s.basic_rom_enabled
    /\ kernal_rom_enabled' = s.kernal_rom_enabled
    /\ char_rom_enabled' = s.char_rom_enabled
    /\ io_enabled' = s.io_enabled
    /\ memory_read_map' = s.memory_read_map
    /\ cpu' = s.cpu
    /\ cycles' = s.cycles

RamAt(s, a) == Get(s.ram, a, 0)
BasicAt(s, i) == Get(s.basic_rom, i, 234)
KernalAt(s, i) == Get(s.kernal_rom, i, 234)
CharAt(s, i) == Get(s.char_rom, i, 0)

\* the table update_memory_maps() builds from the four flags
PageEntry(basic, kernal, chr, io, i) ==
    IF kernal /\ i >= 224 /\ i <= 255 THEN "kernal_rom"
    ELSE IF ~io /\ chr /\ i >= 208 /\ i <= 223 THEN "char_rom"
    ELSE IF basic /\ i >= 160 /\ i <= 191 THEN "basic_rom"
    ELSE "memory"

\* update_memory_maps never taking the KERNAL ROM out of the table
update_memory_maps_kernal_fixed(s) ==
    [s EXCEPT !.memory_read_map =
        [i \in 0..255 |-> PageEntry(s.basic_rom_enabled, TRUE,
                                    s.char_rom_enabled, s.io_enabled, i)]]

update_memory_maps(s) ==
    [s EXCEPT !.memory_read_map =
        [i \in 0..255 |-> PageEntry(s.basic_rom_enabled, s.kernal_rom_enabled,
                                    s.char_rom_enabled, s.io_enabled, i)]]

\* offset into buffer buf of the pointer update_memory_maps() stores for page i
PageBase(buf, i) ==
    CASE buf = "memory" -> i * 256
      [] buf = "basic_rom" -> (i - 160) * 256
      [] buf = "kernal_rom" -> (i - 224) * 256
      [] buf = "char_rom" -> (i - 208) * 256

\* memory_read_map[page][offset]
Deref(s, page, offset) ==
    LET buf == s.memory_read_map[page]
        index == PageBase(buf, page) + offset
    IN CASE buf = "memory" -> RamAt(s, index)
         [] buf = "basic_rom" -> BasicAt(s, index)
         [] buf = "kernal_rom" -> KernalAt(s, index)
         [] buf = "char_rom" -> CharAt(s, index)

memory_read(s, address) ==
    LET page == address \div 256
        offset == address % 256
    IN IF page >= 208 /\ page <= 223 /\ s.io_enabled
       THEN RamAt(s, address)
       ELSE Deref(s, page, offset)

\* memory_write with BASIC following bit 0 alone
memory_write_basic_bit0(s, address, value) ==
    IF s.basic_rom_enabled /\ address >= BASIC_ROM_START /\ address <= BASIC_ROM_END
    THEN s
    ELSE IF s.kernal_rom_enabled /\ address >= KERNAL_ROM_START /\ address <= KERNAL_ROM_END
    THEN s
    ELSE IF address >= IO_REGION_START /\ address <= IO_REGION_END /\ s.io_enabled
    THEN [s EXCEPT !.ram = Put(s.ram, address, value, 0)]
    ELSE IF address >= IO_REGION_START /\ address <= IO_REGION_END /\ s.char_rom_enabled
    THEN s
    ELSE IF address = 1
    THEN LET old_value == RamAt(s, 1)
             t == [s EXCEPT !.ram = Put(s.ram, 1, value, 0),
                            !.kernal_rom_enabled = (Bit(value, 1) = 1),
                            !.basic_rom_enabled = (Bit(value, 0) = 1),
                            !.io_enabled = (Bit(value, 2) = 1),
                            !.char_rom_enabled = (Bit(value, 2) = 0 /\ value % 4 # 0)]
         IN IF Low3(old_value) # Low3(value) THEN update_memory_maps(t) ELSE t
    ELSE [s EXCEPT !.ram = Put(s.ram, address, value, 0)]

\* memory_write that never rebuilds the page table
memory_write_no_rebuild(s, address, value) ==
    IF s.basic_rom_enabled /\ address >= BASIC_ROM_START /\ address <= BASIC_ROM_END
    THEN s
    ELSE IF s.kernal_rom_enabled /\ address >= KERNAL_ROM_START /\ address <= KERNAL_ROM_END
    THEN s
    ELSE IF address >= IO_REGION_START /\ address <= IO_REGION_END /\ s.io_enabled
    THEN [s EXCEPT !.ram = Put(s.ram, address, value, 0)]
    ELSE IF address >= IO_REGION_START /\ address <= IO_REGION_END /\ s.char_rom_enabled
    THEN s
    ELSE IF address = 1
    THEN [s EXCEPT !.ram = Put(s.ram, 1, value, 0),
                   !.kernal_rom_enabled = (Bit(value, 1) = 1),
                   !.basic_rom_enabled = (value % 4 # 0),
                   !.io_enabled = (Bit(value, 2) = 1),
                   !.char_rom_enabled = (Bit(value, 2) = 0 /\ value % 4 # 0)]
    ELSE [s EXCEPT !.ram = Put(s.ram, address, value, 0)]

\* memory_write storing into the BASIC and KERNAL images instead of
\* discarding the write
memory_write_into_rom(s, address, value) ==
    IF s.basic_rom_enabled /\ address >= BASIC_ROM_START /\ address <= BASIC_ROM_END
    THEN [s EXCEPT !.basic_rom = Put(s.basic_rom, address - BASIC_ROM_START,
                                     value, 234)]
    ELSE IF s.kernal_rom_enabled /\ address >= KERNAL_ROM_START /\ address <= KERNAL_ROM_END
    THEN [s EXCEPT !.kernal_rom = Put(s.kernal_rom, address - KERNAL_ROM_START,
                                      value, 234)]
    ELSE IF address >= IO_REGION_START /\ address <= IO_REGION_END /\ s.io_enabled
    THEN [s EXCEPT !.ram = Put(s.ram, address, value, 0)]
    ELSE IF address >= IO_REGION_START /\ address <= IO_REGION_END /\ s.char_rom_enabled
    THEN s
    ELSE IF address = 1
    THEN LET old_value == RamAt(s, 1)
             t == [s EXCEPT !.ram = Put(s.ram, 1, value, 0),
                            !.kernal_rom_enabled = (Bit(value, 1) = 1),
                            !.basic_rom_enabled = (value % 4 # 0),
                            !.io_enabled = (Bit(value, 2) = 1),
                            !.char_rom_enabled = (Bit(value, 2) = 0 /\ value % 4 # 0)]
         IN IF Low3(old_value) # Low3(value) THEN update_memory_maps(t) ELSE t
    ELSE [s EXCEPT !.ram = Put(s.ram, address, value, 0)]

\* memory_write storing into the RAM under an enabled BASIC or KERNAL ROM
memory_write_through(s, address, value) ==
    IF address >= IO_REGION_START /\ address <= IO_REGION_END /\ s.io_enabled
    THEN [s EXCEPT !.ram = Put(s.ram, address, value, 0)]
    ELSE IF address >= IO_REGION_START /\ address <= IO_REGION_END /\ s.char_rom_enabled
    THEN s
    ELSE IF address = 1
    THEN LET old_value == RamAt(s, 1)
             t == [s EXCEPT !.ram = Put(s.ram, 1, value, 0),
                            !.kernal_rom_enabled = (Bit(value, 1) = 1),
                            !.basic_rom_enabled = (value % 4 # 0),
                            !.io_enabled = (Bit(value, 2) = 1),
                            !.char_rom_enabled = (Bit(value, 2) = 0 /\ value % 4 # 0)]
         IN IF Low3(old_value) # Low3(value) THEN update_memory_maps(t) ELSE t
    ELSE [s EXCEPT !.ram = Put(s.ram, address, value, 0)]

memory_write(s, address, value) ==
    IF s.basic_rom_enabled /\ address >= BASIC_ROM_START /\ address <= BASIC_ROM_END
    THEN s
    ELSE IF s.kernal_rom_enabled /\ address >= KERNAL_ROM_START /\ address <= KERNAL_ROM_END
    THEN s
    ELSE IF address >= IO_REGION_START /\ address <= IO_REGION_END /\ s.io_enabled
    THEN [s EXCEPT !.ram = Put(s.ram, address, value, 0)]
    ELSE IF address >= IO_REGION_START /\ address <= IO_REGION_END /\ s.char_rom_enabled
    THEN s
    ELSE IF address = 1
    THEN LET old_value == RamAt(s, 1)
             t == [s EXCEPT !.ram = Put(s.ram, 1, value, 0),
                            !.kernal_rom_enabled = (Bit(value, 1) = 1),
                            !.basic_rom_enabled = (value % 4 # 0),
                            !.io_enabled = (Bit(value, 2) = 1),
                            !.char_rom_enabled = (Bit(value, 2) = 0 /\ value % 4 # 0)]
         IN IF Low3(old_value) # Low3(value) THEN update_memory_maps(t) ELSE t
    ELSE [s EXCEPT !.ram = Put(s.ram, address, value, 0)]

\* memory_load without the bounds check
memory_load_unchecked(s, address, data) ==
    [s EXCEPT !.ram = PutSeq(s.ram, address, data, Len(data), 0)]

memory_load(s, address, data) ==
    LET length == IF address + Len(data) > MEMORY_SIZE
                  THEN MEMORY_SIZE - address ELSE Len(data)
    IN [s EXCEPT !.ram = PutSeq(s.ram, address, data, length, 0)]

\* whether memory_load prints its warning
memory_load_warns(address, data) == address + Len(data) > MEMORY_SIZE

\* the value memory_load_rom returns
memory_load_rom_returns(opened) == IF opened THEN 1 ELSE 0

\* memory_load_rom without the closing update_memory_maps()
memory_load_rom_no_rebuild(s, rom, opened, data) ==
    IF ~opened THEN s
    ELSE LET size == CASE rom = "basic_rom" -> BASIC_ROM_SIZE
                       [] rom = "kernal_rom" -> KERNAL_ROM_SIZE
                       [] rom = "char_rom" -> CHAR_ROM_SIZE
             n == IF Len(data) < size THEN Len(data) ELSE size
         IN CASE rom = "basic_rom" ->
                   [s EXCEPT !.basic_rom = PutSeq(s.basic_rom, 0, data, n, 234)]
              [] rom = "kernal_rom" ->
                   [s EXCEPT !.kernal_rom = PutSeq(s.kernal_rom, 0, data, n, 234)]
              [] rom = "char_rom" ->
                   [s EXCEPT !.char_rom = PutSeq(s.char_rom, 0, data, n, 0)]

\* memory_load_rom on the buffer named rom; opened is fopen's success and
\* data the bytes fread delivers (at most the buffer's size)
memory_load_rom(s, rom, opened, data) ==
    IF ~opened THEN s
    ELSE LET size == CASE rom = "basic_rom" -> BASIC_ROM_SIZE
                       [] rom = "kernal_rom" -> KERNAL_ROM_SIZE
                       [] rom = "char_rom" -> CHAR_ROM_SIZE
             n == IF Len(data) < size THEN Len(data) ELSE size
             t == CASE rom = "basic_rom" ->
                         [s EXCEPT !.basic_rom = PutSeq(s.basic_rom, 0, data, n, 234)]
                    [] rom = "kernal_rom" ->
                         [s EXCEPT !.kernal_rom = PutSeq(s.kernal_rom, 0, data, n, 234)]
                    [] rom = "char_rom" ->
                         [s EXCEPT !.char_rom = PutSeq(s.char_rom, 0, data, n, 0)]
         IN update_memory_maps(t)

\* Where the build places kernal_rom relative to memory decides what the
\* stores memory_init() makes through kernal_rom[0x1FFA - 0xE000 ..
\* 0x1FFF - 0xE000] hit: the index is negative (0x1FFC - 0xE000 = -49156),
\* so the store is outside kernal_rom.  With the three arrays laid out in
\* declaration order (memory, basic_rom, kernal_rom) the target is
\* memory[65536 + 8192 + index]; an instrumented build keeps that order and
\* follows each array with a red zone, which moves the target up by two red
\* zones.  With the arrays in the reverse order (memory_read_map, char_rom,
\* kernal_rom, basic_rom, memory, as the optimising builds place them) the
\* target lies 49 KiB below kernal_rom, outside the data segment, and the
\* first store ends the process with SIGSEGV; the compiler is free to emit
\* that store after the stores to memory[0] and memory[1] (source order) or
\* before them (hoisted).  In any other layout the target is mapped storage
\* this model does not hold.
Layouts == {"declaration_order", "red_zones", "elsewhere", "unmapped",
            "unmapped_hoisted"}

\* bytes of red zone an instrumented build puts after each array
RedZone == 32

\* kernal_rom - memory, for the layouts that keep the declaration order
KernalOffset(layout) ==
    IF layout = "red_zones"
    THEN MEMORY_SIZE + RedZone + BASIC_ROM_SIZE + RedZone
    ELSE MEMORY_SIZE + BASIC_ROM_SIZE

\* the out-of-bounds stores of memory_init() hit an unmapped address
Faults(layout) == layout \in {"unmapped", "unmapped_hoisted"}

VectorStore(s, layout, index, value) ==
    IF index >= 0 /\ index < KERNAL_ROM_SIZE
    THEN [s EXCEPT !.kernal_rom = Put(s.kernal_rom, index, value, 234)]
    ELSE IF layout \in {"declaration_order", "red_zones"}
            /\ KernalOffset(layout) + index >= 0
            /\ KernalOffset(layout) + index < MEMORY_SIZE
    THEN [s EXCEPT !.ram = Put(s.ram, KernalOffset(layout) + index, value, 0)]
    ELSE s

\* index expression 0x1FFx - 0xE000 of memory_init()
VectorIndex(k) == k - 57344

memory_init(cpu0, cycles0, layout) ==
    LET s0 == [ram |-> IF layout = "unmapped_hoisted" THEN Empty
                       ELSE (0 :> 47) @@ (1 :> 55),
               basic_rom |-> Empty, kernal_rom |-> Empty, char_rom |-> Empty,
               basic_rom_enabled |-> TRUE, kernal_rom_enabled |-> TRUE,
               char_rom_enabled |-> TRUE, io_enabled |-> TRUE,
               memory_read_map |-> [i \in 0..255 |-> "null"],
               cpu |-> cpu0, cycles |-> cycles0]
        s1 == VectorStore(s0, layout, VectorIndex(8188), 0)
        s2 == VectorStore(s1, layout, VectorIndex(8189), 224)
        s3 == VectorStore(s2, layout, VectorIndex(8186), 67)
        s4 == VectorStore(s3, layout, VectorIndex(8187), 254)
        s5 == VectorStore(s4, layout, VectorIndex(8190), 72)
        s6 == VectorStore(s5, layout, VectorIndex(8191), 255)
    IN IF Faults(layout) THEN s0 ELSE update_memory_maps(s6)

-----------------------------------------------------------------------------
(* CPU interpreter *)

Size1 == {96, 136, 200, 202, 232}
Size2 == {16, 48, 80, 112, 129, 132, 133, 134, 144, 145, 148, 149, 150, 160,
          161, 162, 164, 165, 166, 169, 176, 177, 180, 181, 182, 193, 197,
          201, 208, 209, 213, 240}
Size3 == {32, 76, 108, 140, 141, 142, 153, 157, 172, 173, 174, 185, 188, 189,
          190, 205, 217, 221}
\* opcode_sizes with a two-byte BRK
opcode_sizes_brk_2(op) ==
    IF op \in Size3 THEN 3 ELSE IF op \in Size2 \cup {0} THEN 2 ELSE 1

opcode_sizes(op) == IF op \in Size3 THEN 3 ELSE IF op \in Size2 THEN 2 ELSE 1

Cycles3 == {76, 132, 133, 134, 164, 165, 166, 197}
Cycles4 == {140, 141, 142, 148, 149, 150, 172, 173, 174, 180, 181, 182, 185,
            188, 189, 190, 205, 213, 217, 221}
Cycles5 == {108, 153, 157, 177, 209}
Cycles6 == {32, 96, 129, 145, 161, 193}
\* opcode_cycles with the cost 0 wherever the table holds 2
opcode_cycles_no_default(op) ==
    IF op \in Cycles3 THEN 3 ELSE IF op \in Cycles4 THEN 4
    ELSE IF op \in Cycles5 THEN 5 ELSE IF op \in Cycles6 THEN 6 ELSE 0

opcode_cycles(op) ==
    IF op \in Cycles3 THEN 3 ELSE IF op \in Cycles4 THEN 4
    ELSE IF op \in Cycles5 THEN 5 ELSE IF op \in Cycles6 THEN 6 ELSE 2

opcode_modes(op) ==
    IF op \in {160, 162, 169, 201} THEN "ADDR_IMMEDIATE"
    ELSE IF op \in {132, 133, 134, 164, 165, 166, 197} THEN "ADDR_ZERO_PAGE"
    ELSE IF op \in {148, 149, 180, 181, 213} THEN "ADDR_ZERO_PAGE_X"
    ELSE IF op \in {150, 182} THEN "ADDR_ZERO_PAGE_Y"
    ELSE IF op \in {16, 48, 80, 112, 144, 176, 208, 240} THEN "ADDR_RELATIVE"
    ELSE IF op \in {32, 76, 140, 141, 142, 172, 173, 174, 205} THEN "ADDR_ABSOLUTE"
    ELSE IF op \in {157, 188, 189, 221} THEN "ADDR_ABSOLUTE_X"
    ELSE IF op \in {153, 185, 190, 217} THEN "ADDR_ABSOLUTE_Y"
    ELSE IF op = 108 THEN "ADDR_INDIRECT"
    ELSE IF op \in {129, 161, 193} THEN "ADDR_INDEXED_INDIRECT"
    ELSE IF op \in {145, 177, 209} THEN "ADDR_INDIRECT_INDEXED"
    ELSE "ADDR_IMPLIED"

\* cpu_get_status without the constant bit 5
cpu_get_status_no_bit5(s) ==
    s.cpu.c + 2 * s.cpu.z + 4 * s.cpu.i + 8 * s.cpu.d + 16 * s.cpu.b
    + 64 * s.cpu.v + 128 * s.cpu.n

cpu_get_status(s) ==
    s.cpu.c + 2 * s.cpu.z + 4 * s.cpu.i + 8 * s.cpu.d + 16 * s.cpu.b
    + 32 + 64 * s.cpu.v + 128 * s.cpu.n

cpu_set_status(s, status) ==
    [s EXCEPT !.cpu.c = Bit(status, 0), !.cpu.z = Bit(status, 1),
              !.cpu.i = Bit(status, 2), !.cpu.d = Bit(status, 3),
              !.cpu.b = Bit(status, 4), !.cpu.v = Bit(status, 6),
              !.cpu.n = Bit(status, 7)]

\* cpu_reset clearing the decimal flag as well
cpu_reset_clears_d(s) ==
    LET reset_vector == Word(memory_read(s, RESET_VECTOR),
                             memory_read(s, RESET_VECTOR + 1))
    IN [s EXCEPT !.cpu.pc = reset_vector, !.cpu.sp = 253, !.cpu.i = 1,
                 !.cpu.d = 0, !.cycles = U32(0)]

\* cpu_reset lowering sp by three instead of assigning it
cpu_reset_sp_minus_3(s) ==
    LET reset_vector == Word(memory_read(s, RESET_VECTOR),
                             memory_read(s, RESET_VECTOR + 1))
    IN [s EXCEPT !.cpu.pc = reset_vector, !.cpu.sp = U8(s.cpu.sp + 253),
                 !.cpu.i = 1, !.cycles = U32(0)]

cpu_reset(s) ==
    LET reset_vector == Word(memory_read(s, RESET_VECTOR),
                             memory_read(s, RESET_VECTOR + 1))
    IN [s EXCEPT !.cpu.pc = reset_vector, !.cpu.sp = 253, !.cpu.i = 1,
                 !.cycles = U32(0)]

cpu_init(s) ==
    cpu_reset([s EXCEPT !.cpu = [pc |-> 0, a |-> 0, x |-> 0, y |-> 0, sp |-> 253,
                                 c |-> 0, z |-> 0, i |-> 1, d |-> 0, b |-> 0,
                                 v |-> 0, n |-> 0]])

\* cpu_push_byte with a stack pointer that does not wrap below 0
cpu_push_byte_no_wrap(s, value) ==
    LET t == memory_write(s, STACK_PAGE + s.cpu.sp, value)
    IN [t EXCEPT !.cpu.sp = s.cpu.sp - 1]

cpu_push_byte(s, value) ==
    LET t == memory_write(s, STACK_PAGE + s.cpu.sp, value)
    IN [t EXCEPT !.cpu.sp = U8(s.cpu.sp - 1)]

\* cpu_pull_byte reading before it increments sp
cpu_pull_byte_post_increment(s) ==
    LET t == [s EXCEPT !.cpu.sp = U8(s.cpu.sp + 1)]
    IN [s |-> t, v |-> memory_read(s, STACK_PAGE + s.cpu.sp)]

\* the state after the pull and the byte pulled
cpu_pull_byte(s) ==
    LET t == [s EXCEPT !.cpu.sp = U8(s.cpu.sp + 1)]
    IN [s |-> t, v |-> memory_read(t, STACK_PAGE + t.cpu.sp)]

cpu_push_word(s, value) ==
    cpu_push_byte(cpu_push_byte(s, Hi(value)), Lo(value))

cpu_pull_word(s) ==
    LET low == cpu_pull_byte(s)
        high == cpu_pull_byte(low.s)
    IN [s |-> high.s, v |-> Word(low.v, high.v)]

\* cpu_interrupt without the test of the I flag
cpu_interrupt_unmasked(s, is_nmi) ==
    LET s1 == cpu_push_word(s, s.cpu.pc)
        status == cpu_get_status(s1) - 16 * Bit(cpu_get_status(s1), 4)
        s2 == cpu_push_byte(s1, status)
        s3 == [s2 EXCEPT !.cpu.i = 1]
        vector == IF is_nmi THEN NMI_VECTOR ELSE IRQ_VECTOR
    IN [s3 EXCEPT !.cpu.pc = Word(memory_read(s3, vector),
                                  memory_read(s3, vector + 1)),
                  !.cycles = Add32(s3.cycles, U32(7))]

\* cpu_interrupt pushing the status as cpu_get_status returns it
cpu_interrupt_b_kept(s, is_nmi) ==
    IF is_nmi \/ s.cpu.i = 0
    THEN LET s1 == cpu_push_word(s, s.cpu.pc)
             s2 == cpu_push_byte(s1, cpu_get_status(s1))
             s3 == [s2 EXCEPT !.cpu.i = 1]
             vector == IF is_nmi THEN NMI_VECTOR ELSE IRQ_VECTOR
         IN [s3 EXCEPT !.cpu.pc = Word(memory_read(s3, vector),
                                       memory_read(s3, vector + 1)),
                       !.cycles = Add32(s3.cycles, U32(7))]
    ELSE s

cpu_interrupt(s, is_nmi) ==
    IF is_nmi \/ s.cpu.i = 0
    THEN LET s1 == cpu_push_word(s, s.cpu.pc)
             status == cpu_get_status(s1) - 16 * Bit(cpu_get_status(s1), 4)
             s2 == cpu_push_byte(s1, status)
             s3 == [s2 EXCEPT !.cpu.i = 1]
             vector == IF is_nmi THEN NMI_VECTOR ELSE IRQ_VECTOR
         IN [s3 EXCEPT !.cpu.pc = Word(memory_read(s3, vector),
                                       memory_read(s3, vector + 1)),
                       !.cycles = Add32(s3.cycles, U32(7))]
    ELSE s

\* case ADDR_INDIRECT with the high byte always read from ptr + 1
indirect_next_byte(s, ptr) ==
    Word(memory_read(s, ptr), memory_read(s, U16(ptr + 1)))

\* case ADDR_INDIRECT: the word the pointer of JMP (ptr) names
indirect(s, ptr) ==
    IF ptr % 256 = 255
    THEN Word(memory_read(s, ptr), memory_read(s, ptr - 255))
    ELSE Word(memory_read(s, ptr), memory_read(s, U16(ptr + 1)))

\* case ADDR_INDIRECT_INDEXED with the pointer's high byte read from zp + 1
\* without the wrap to page 0
indirect_indexed_no_wrap(s, zp) ==
    U16(Word(memory_read(s, zp), memory_read(s, zp + 1)) + s.cpu.y)

\* case ADDR_INDIRECT_INDEXED: the address (zp),Y names
indirect_indexed(s, zp) ==
    U16(Word(memory_read(s, zp), memory_read(s, (zp + 1) % 256)) + s.cpu.y)

\* case ADDR_INDEXED_INDIRECT with the high byte read from zp + 1 without
\* the wrap to page 0
indexed_indirect_no_wrap(s, zp) ==
    Word(memory_read(s, zp), memory_read(s, zp + 1))

\* case ADDR_INDEXED_INDIRECT: the word the zero-page pointer at zp holds
indexed_indirect(s, zp) ==
    Word(memory_read(s, zp), memory_read(s, (zp + 1) % 256))

cpu_get_operand_address(s, mode) ==
    LET pc == s.cpu.pc
        op1 == memory_read(s, U16(pc + 1))
        op2 == memory_read(s, U16(pc + 2))
    IN CASE mode \in {"ADDR_IMPLIED", "ADDR_ACCUMULATOR"} -> 0
         [] mode = "ADDR_IMMEDIATE" -> U16(pc + 1)
         [] mode = "ADDR_ZERO_PAGE" -> op1
         [] mode = "ADDR_ZERO_PAGE_X" -> (op1 + s.cpu.x) % 256
         [] mode = "ADDR_ZERO_PAGE_Y" -> (op1 + s.cpu.y) % 256
         [] mode = "ADDR_RELATIVE" -> U16(pc + 2 + S8(op1))
         [] mode = "ADDR_ABSOLUTE" -> Word(op1, op2)
         [] mode = "ADDR_ABSOLUTE_X" -> U16(Word(op1, op2) + s.cpu.x)
         [] mode = "ADDR_ABSOLUTE_Y" -> U16(Word(op1, op2) + s.cpu.y)
         [] mode = "ADDR_INDIRECT" -> indirect(s, Word(op1, op2))
         [] mode = "ADDR_INDEXED_INDIRECT" ->
              indexed_indirect(s, (op1 + s.cpu.x) % 256)
         [] mode = "ADDR_INDIRECT_INDEXED" -> indirect_indexed(s, op1)

\* SetZN with the zero test inverted
SetZN_inverted_z(s, r) == [s EXCEPT !.cpu.z = B2I(r # 0), !.cpu.n = Bit(r, 7)]

\* SetZN leaving the negative flag as it was
SetZN_keeps_n(s, r) == [s EXCEPT !.cpu.z = B2I(r = 0)]

\* cpu.z = (r == 0); cpu.n = (r & 0x80) != 0
SetZN(s, r) == [s EXCEPT !.cpu.z = B2I(r = 0), !.cpu.n = Bit(r, 7)]

\* the CMP case with the carry set only when a is strictly greater
compare_carry_strict(s, value) ==
    LET result == U8(s.cpu.a - value + 256)
    IN SetZN([s EXCEPT !.cpu.c = B2I(s.cpu.a > value)], result)

\* the CMP case writing the overflow flag as a subtraction would
compare_sets_v(s, value) ==
    LET result == U8(s.cpu.a - value + 256)
    IN SetZN([s EXCEPT !.cpu.c = B2I(s.cpu.a >= value),
                       !.cpu.v = B2I(Bit(s.cpu.a, 7) # Bit(value, 7)
                                     /\ Bit(s.cpu.a, 7) # Bit(result, 7))],
             result)

\* the CMP case: result = cpu.a - value in 8 bits; c, z and n from it
compare(s, value) ==
    LET result == U8(s.cpu.a - value + 256)
    IN SetZN([s EXCEPT !.cpu.c = B2I(s.cpu.a >= value)], result)

\* cpu_emulate_kernal without the closing RTS
cpu_emulate_kernal_no_rts(s, address, inp) ==
    CASE address = 65487 -> [s EXCEPT !.cpu.a = U8(inp.ch + 256)]
      [] address = 65508 ->
           LET c == IF inp.kbhit THEN inp.ch ELSE -1
           IN [s EXCEPT !.cpu.a = IF c = -1 THEN 0 ELSE U8(c)]
      [] OTHER -> s

\* The host's standard input as the KERNAL routines see it: whether select()
\* reports a byte ready, and what getchar() returns (-1 is EOF).
cpu_emulate_kernal(s, address, inp) ==
    LET s1 == CASE address = 65490 -> s
                [] address = 65487 -> [s EXCEPT !.cpu.a = U8(inp.ch + 256)]
                [] address = 65508 ->
                     LET c == IF inp.kbhit THEN inp.ch ELSE -1
                     IN [s EXCEPT !.cpu.a = IF c = -1 THEN 0 ELSE U8(c)]
                [] OTHER -> s
        w == cpu_pull_word(s1)
    IN [w.s EXCEPT !.cpu.pc = U16(w.v + 1)]

\* TXS setting Z and N from the byte it moves, as the other transfers do
TXS_sets_zn(s) == SetZN([s EXCEPT !.cpu.sp = s.cpu.x], s.cpu.x)

TXS(s) == [s EXCEPT !.cpu.sp = s.cpu.x]

\* the state after the switch statement of cpu_step, the value of size and
\* the addresses cpu_emulate_kernal was called with, in order
Execute(s, opcode, address, inp) ==
    LET size == opcode_sizes(opcode)
        keep(t) == [s |-> t, size |-> size, hook |-> <<>>]
        jump(t) == [s |-> t, size |-> 0, hook |-> <<>>]
        branch(cond) == IF cond THEN jump([s EXCEPT !.cpu.pc = address])
                        ELSE keep(s)
    IN CASE opcode \in {169, 165, 181, 173, 189, 185, 161, 177} ->
              LET r == memory_read(s, address)
              IN keep(SetZN([s EXCEPT !.cpu.a = r], r))
         [] opcode \in {162, 166, 182, 174, 190} ->
              LET r == memory_read(s, address)
              IN keep(SetZN([s EXCEPT !.cpu.x = r], r))
         [] opcode \in {160, 164, 180, 172, 188} ->
              LET r == memory_read(s, address)
              IN keep(SetZN([s EXCEPT !.cpu.y = r], r))
         [] opcode \in {133, 149, 141, 157, 153, 129, 145} ->
              keep(memory_write(s, address, s.cpu.a))
         [] opcode \in {134, 150, 142} ->
              keep(memory_write(s, address, s.cpu.x))
         [] opcode \in {132, 148, 140} ->
              keep(memory_write(s, address, s.cpu.y))
         [] opcode \in {76, 108} ->
              jump([s EXCEPT !.cpu.pc = address])
         [] opcode = 32 ->
              IF address >= 65280
              THEN [s |-> cpu_emulate_kernal(
                              cpu_push_word(s, U16(s.cpu.pc + 2)), address, inp),
                    size |-> 0, hook |-> <<address>>]
              ELSE jump([cpu_push_word(s, U16(s.cpu.pc + 2 - 1))
                             EXCEPT !.cpu.pc = address])
         [] opcode = 96 ->
              LET w == cpu_pull_word(s)
              IN jump([w.s EXCEPT !.cpu.pc = U16(w.v + 1)])
         [] opcode = 232 ->
              LET r == U8(s.cpu.x + 1) IN keep(SetZN([s EXCEPT !.cpu.x = r], r))
         [] opcode = 200 ->
              LET r == U8(s.cpu.y + 1) IN keep(SetZN([s EXCEPT !.cpu.y = r], r))
         [] opcode = 202 ->
              LET r == U8(s.cpu.x + 255) IN keep(SetZN([s EXCEPT !.cpu.x = r], r))
         [] opcode = 136 ->
              LET r == U8(s.cpu.y + 255) IN keep(SetZN([s EXCEPT !.cpu.y = r], r))
         [] opcode \in {201, 197, 213, 205, 221, 217, 193, 209} ->
              keep(compare(s, memory_read(s, address)))
         [] opcode = 240 -> branch(s.cpu.z # 0)
         [] opcode = 208 -> branch(s.cpu.z = 0)
         [] opcode = 176 -> branch(s.cpu.c # 0)
         [] opcode = 144 -> branch(s.cpu.c = 0)
         [] opcode = 48 -> branch(s.cpu.n # 0)
         [] opcode = 16 -> branch(s.cpu.n = 0)
         [] opcode = 112 -> branch(s.cpu.v # 0)
         [] opcode = 80 -> branch(s.cpu.v = 0)
         [] opcode = 170 -> keep(SetZN([s EXCEPT !.cpu.x = s.cpu.a], s.cpu.a))
         [] opcode = 168 -> keep(SetZN([s EXCEPT !.cpu.y = s.cpu.a], s.cpu.a))
         [] opcode = 138 -> keep(SetZN([s EXCEPT !.cpu.a = s.cpu.x], s.cpu.x))
         [] opcode = 152 -> keep(SetZN([s EXCEPT !.cpu.a = s.cpu.y], s.cpu.y))
         [] opcode = 186 -> keep(SetZN([s EXCEPT !.cpu.x = s.cpu.sp], s.cpu.sp))
         [] opcode = 154 -> keep(TXS(s))
         [] OTHER -> keep(s)

\* cpu_step adding the table's size also after the instruction set pc
cpu_step_size_after_jump(s, inp) ==
    LET opcode == memory_read(s, s.cpu.pc)
        mode == opcode_modes(opcode)
        address == cpu_get_operand_address(s, mode)
        e == Execute(s, opcode, address, inp)
        t == [e.s EXCEPT !.cpu.pc = U16(e.s.cpu.pc + opcode_sizes(opcode))]
    IN [t EXCEPT !.cycles = Add32(t.cycles, U32(opcode_cycles(opcode)))]

cpu_step(s, inp) ==
    LET opcode == memory_read(s, s.cpu.pc)
        mode == opcode_modes(opcode)
        address == cpu_get_operand_address(s, mode)
        e == Execute(s, opcode, address, inp)
        t == IF e.size > 0
             THEN [e.s EXCEPT !.cpu.pc = U16(e.s.cpu.pc + e.size)]
             ELSE e.s
    IN [t EXCEPT !.cycles = Add32(t.cycles, U32(opcode_cycles(opcode)))]

\* the calls of cpu_emulate_kernal one cpu_step makes
kernal_calls(s, inp) ==
    LET opcode == memory_read(s, s.cpu.pc)
    IN Execute(s, opcode, cpu_get_operand_address(s, opcode_modes(opcode)),
               inp).hook

cpu_set_pc(s, address) == [s EXCEPT !.cpu.pc = address]

-----------------------------------------------------------------------------
(* Operations of the core as the host calls them.  Each call appends one   *)
(* entry to hist: its name, address and value arguments, its result, and   *)
(* the stack pointer and program counter it found.                         *)

Ev(op, addr, val, res) ==
    [op |-> op, addr |-> addr, val |-> val, res |-> res,
     sp |-> cpu.sp, pc |-> cpu.pc]

Call(s, e) ==
    Commit(s) /\ hist' = Append(hist, e) /\ UNCHANGED <<target_cycles, dump>>

Last == hist[Len(hist)]

(* Inputs *)

PortAddr == 1
WriteAddrs == {1, 40960, 53248, 57344}
PortValues == {0, 1, 2, 3, 4, 5, 6, 7, 48}
DataValues == {66}
LoadInputs == {<<1, <<0>>>>, <<1, <<7>>>>, <<49152, <<169, 0, 133, 1>>>>}
\* <<buffer, whether fopen succeeds, the bytes fread delivers>>
RomLoads == {<<"basic_rom", TRUE, <<17, 34>>>>, <<"kernal_rom", TRUE, <<17, 34>>>>,
             <<"char_rom", TRUE, <<17, 34>>>>, <<"basic_rom", FALSE, <<17, 34>>>>}
ReadAddrs == {40960, 65532}
PcValues == {49152}
Inputs == {[kbhit |-> FALSE, ch |-> -1], [kbhit |-> TRUE, ch |-> 65]}
NoInput == {[kbhit |-> FALSE, ch |-> -1]}

Write(addr, v) ==
    Call(memory_write(Cur, addr, v), Ev("write", addr, v, 0))

Load(addr, data) ==
    Call(memory_load(Cur, addr, data),
         Ev("load", addr, data, B2I(memory_load_warns(addr, data))))

LoadRom(rom, opened, data) ==
    Call(memory_load_rom(Cur, rom, opened, data),
         Ev("load_rom", rom, <<opened, data>>, memory_load_rom_returns(opened)))

Read(addr) ==
    Call(Cur, Ev("read", addr, 0, memory_read(Cur, addr)))

Step(inp) ==
    Call(cpu_step(Cur, inp),
         Ev("step", cpu.pc, memory_read(Cur, cpu.pc), kernal_calls(Cur, inp)))

Reset ==
    Call(cpu_reset(Cur), Ev("reset", 0, 0, 0))

SetPc(addr) ==
    Call(cpu_set_pc(Cur, addr), Ev("set_pc", addr, 0, 0))


-----------------------------------------------------------------------------
(* The stack helpers and the status packing, applied to states the core    *)
(* reaches by running LDX #sp; TXS after construction.                     *)

StackPointers == {0, 1, 253, 255}
PushBytes == {0, 165}
PushWords == {49154, 255}
StatusBytes == {0, 255, 32, 223, 1, 16, 128}

PushByte(v) ==
    Call(cpu_push_byte(Cur, v), Ev("push8", STACK_PAGE + cpu.sp, v, 0))

PullByte ==
    LET r == cpu_pull_byte(Cur)
    IN Call(r.s, Ev("pull8", STACK_PAGE + r.s.cpu.sp, 0, r.v))

PushWord(w) ==
    Call(cpu_push_word(Cur, w), Ev("push16", STACK_PAGE + cpu.sp, w, 0))

PullWord ==
    LET r == cpu_pull_word(Cur)
    IN Call(r.s, Ev("pull16", STACK_PAGE + r.s.cpu.sp, 0, r.v))

SetStatus(status) ==
    Call(cpu_set_status(Cur, status), Ev("set_status", 0, status, 0))

GetStatus ==
    Call(Cur, Ev("get_status", 0, 0, cpu_get_status(Cur)))

\* static CPU cpu and static uint32_t cycles before cpu_init()
cpu_zero == [pc |-> 0, a |-> 0, x |-> 0, y |-> 0, sp |-> 0, c |-> 0,
             z |-> 0, i |-> 0, d |-> 0, b |-> 0, v |-> 0, n |-> 0]

\* the state construction leaves, as a machine-state record
Constructed(layout) == cpu_init(memory_init(cpu_zero, U32(0), layout))

\* what the process had written when the first out-of-bounds store of
\* memory_init() ended it: the page table is not built, cpu_init() has not
\* run, and memory[0], memory[1] are stored or not as the build ordered them
Faulted(layout) == memory_init(cpu_zero, U32(0), layout)

RECURSIVE LoadAll(_, _)
LoadAll(s, loads) ==
    IF loads = <<>> THEN s
    ELSE LoadAll(memory_load(s, loads[1][1], loads[1][2]), Tail(loads))

RECURSIVE StepN(_, _)
StepN(s, k) ==
    IF k = 0 THEN s ELSE StepN(cpu_step(s, [kbhit |-> FALSE, ch |-> -1]), k - 1)

Start(s, live) ==
    /\ alive = live
    /\ ram = s.ram
    /\ basic_rom = s.basic_rom
    /\ kernal_rom = s.kernal_rom
    /\ char_rom = s.char_rom
    /\ basic_rom_enabled = s.basic_rom_enabled
    /\ kernal_rom_enabled = s.kernal_rom_enabled
    /\ char_rom_enabled = s.char_rom_enabled
    /\ io_enabled = s.io_enabled
    /\ memory_read_map = s.memory_read_map
    /\ cpu = s.cpu
    /\ cycles = s.cycles
    /\ hist = <<>>
    /\ target_cycles = <<>>
    /\ dump = <<>>

\* the process after its set-up s, or ended inside memory_init() before any
\* of the set-up ran
Boot(layout, s) ==
    IF Faults(layout) THEN Start(Faulted(layout), FALSE) ELSE Start(s, TRUE)

\* memory_init(); cpu_init() with no ROM file loaded
Init == \E layout \in Layouts : Boot(layout, Constructed(layout))

Next ==
    \/ \E addr \in WriteAddrs :
          \E v \in (IF addr = PortAddr THEN PortValues ELSE DataValues) :
              Len(hist) < MaxOps /\ Write(addr, v)
    \/ \E l \in LoadInputs : Len(hist) < MaxOps /\ Load(l[1], l[2])
    \/ \E r \in RomLoads : Len(hist) < MaxOps /\ LoadRom(r[1], r[2], r[3])
    \/ \E addr \in ReadAddrs : Len(hist) < MaxOps /\ Read(addr)
    \/ \E inp \in NoInput : Len(hist) < MaxOps /\ Step(inp)
    \/ Len(hist) < MaxOps /\ Reset
    \/ \E addr \in PcValues : Len(hist) < MaxOps /\ SetPc(addr)

Spec == Init /\ [][Next]_vars

\* memory_init(); cpu_init(); load of LDX #sp; TXS at $C000; set_pc($C000);
\* two steps
InitApi ==
    \E layout \in Layouts, sp \in StackPointers :
        Boot(layout, StepN(cpu_set_pc(memory_load(Constructed(layout), 49152,
                                           <<162, sp, 154>>), 49152), 2))

NextApi ==
    \/ \E v \in PushBytes : Len(hist) < MaxApiOps /\ PushByte(v)
    \/ Len(hist) < MaxApiOps /\ PullByte
    \/ \E w \in PushWords : Len(hist) < MaxApiOps /\ PushWord(w)
    \/ Len(hist) < MaxApiOps /\ PullWord
    \/ \E status \in StatusBytes \cup
                     (IF hist # <<>> /\ Last.op = "get_status"
                      THEN {Last.res} ELSE {}) :
          Len(hist) < MaxApiOps /\ SetStatus(status)
    \/ Len(hist) < MaxApiOps /\ GetStatus

SpecApi == InitApi /\ [][NextApi]_vars

-----------------------------------------------------------------------------
(* Programs run by single steps from the state construction leaves.        *)

\* LDX #sp; TXS; JSR target; NOP with the JSR at address p, RTS at target
JsrSites == {2051, 49155, 4350}
JsrTargets == {49168, 8192}
JsrProgram(p, sp, target) ==
    [loads |-> << <<p - 3, <<162, sp, 154, 32, Lo(target), Hi(target), 234>>>>,
                  <<target, <<96>>>> >>,
     pc |-> p - 3]

\* E2E-2: 20 10 C0 EA at $C000, 60 at $C010, started at $C000
E2E2Program ==
    [loads |-> << <<49152, <<32, 16, 192, 234>>>>, <<49168, <<96>>>> >>,
     pc |-> 49152]

\* LDX #sp; TXS; JSR target; NOP with the JSR at address p and a target the
\* JSR case hands to cpu_emulate_kernal
TrapSites == {2051, 507}
TrapTargets == {65490, 65487, 65508, 65331, 65280, 65535}
TrapProgram(p, sp, target) ==
    [loads |-> << <<p - 3, <<162, sp, 154, 32, Lo(target), Hi(target), 234>>>> >>,
     pc |-> p - 3]

\* E2E-1: A9 42 C9 42 F0 02 00 00 EA at $0800, started at $0800
E2E1Program ==
    [loads |-> << <<2048, <<169, 66, 201, 66, 240, 2, 0, 0, 234>>>> >>,
     pc |-> 2048]

Programs ==
    {JsrProgram(p, sp, target) :
        p \in JsrSites, sp \in StackPointers, target \in JsrTargets}
    \cup {E2E2Program, E2E1Program}
    \cup {TrapProgram(p, sp, target) :
             p \in TrapSites, sp \in StackPointers, target \in TrapTargets}

\* memory_init(); cpu_init(); memory_load of each block; cpu_set_pc
InitCpu ==
    \E layout \in Layouts, prog \in Programs :
        Boot(layout, cpu_set_pc(LoadAll(Constructed(layout), prog.loads), prog.pc))

NextCpu ==
    \E inp \in Inputs : Len(hist) < MaxSteps /\ Step(inp)

SpecCpu == InitCpu /\ [][NextCpu]_vars

-----------------------------------------------------------------------------
(* Interrupts, requested between instructions.  The machine first runs     *)
(* LDX #sp; TXS; LDA #port; STA $01 at $C000, with the three vectors        *)
(* $9000, $0800, $1234 loaded into the RAM at $FFFA..$FFFF.                 *)

IrqPorts == {55, 53}
IrqStatus == {0, 4, 251, 255}
IrqVectors == <<0, 144, 0, 8, 52, 18>>

Interrupt(is_nmi) ==
    Call(cpu_interrupt(Cur, is_nmi), Ev("interrupt", 0, B2I(is_nmi), 0))

InitIrq ==
    \E layout \in Layouts, sp \in StackPointers, port \in IrqPorts :
        Boot(layout, StepN(cpu_set_pc(
            LoadAll(Constructed(layout),
                    << <<49152, <<162, sp, 154, 169, port, 133, 1, 234, 234>>>>,
                       <<NMI_VECTOR, IrqVectors>> >>), 49152), 4))

NextIrq ==
    \/ \E is_nmi \in BOOLEAN : Len(hist) < MaxIrqOps /\ Interrupt(is_nmi)
    \/ \E status \in IrqStatus : Len(hist) < MaxIrqOps /\ SetStatus(status)
    \/ \E inp \in NoInput : Len(hist) < MaxIrqOps /\ Step(inp)
    \/ Len(hist) < MaxIrqOps /\ Reset

SpecIrq == InitIrq /\ [][NextIrq]_vars

-----------------------------------------------------------------------------
(* One instruction of every opcode value.  The machine first runs          *)
(* LDA #a; LDX #x; LDY #y at $C000, the host sets the flags, and the        *)
(* instruction under test follows at $C006.                                 *)

Opcodes == 0..255
\* the two bytes after the opcode: $C010, $FFFE (offset -2), $FFD2, $0001
OpOperands == {<<16, 192>>, <<254, 255>>, <<210, 255>>, <<1, 0>>}
OpRegs == {<<0, 0, 0>>, <<53, 1, 255>>, <<128, 255, 1>>}
OpStatus == {0, 195}

OpProgram(opcode, operand, r) ==
    << <<49152, <<169, r[1], 162, r[2], 160, r[3],
                  opcode, operand[1], operand[2], 234, 234>>>> >>

InitOp ==
    \E layout \in Layouts, opcode \in Opcodes, operand \in OpOperands,
       r \in OpRegs, status \in OpStatus :
        Boot(layout, cpu_set_status(
                  StepN(cpu_set_pc(LoadAll(Constructed(layout),
                                           OpProgram(opcode, operand, r)),
                                   49152), 3),
                  status))

NextOp ==
    \E inp \in NoInput : Len(hist) < MaxOpSteps /\ Step(inp)

SpecOp == InitOp /\ [][NextOp]_vars

-----------------------------------------------------------------------------
(* cpu_execute, one iteration of its loop at a time.  target_cycles is     *)
(* <<>> outside cpu_execute and holds the local of that name inside it.    *)
(* The machine is at the head of a loop that changes nothing but the       *)
(* cycle counter, or in memory it has not written to.  The counter is      *)
(* zeroed only by cpu_reset and grows with every step, so at the head of   *)
(* such a loop it takes, in time, each of the start values below.          *)

\* BNE -2 at $C000 (2 cycles a turn)
BneLoop == [loads |-> << <<49152, <<208, 254>>>> >>, pc |-> 49152, period |-> 1,
            starts |-> {U32(0), <<65535, 65534>>, <<65535, 65528>>}]
\* JMP $C000 at $C000 (3 cycles a turn)
JmpLoop == [loads |-> << <<49152, <<76, 0, 192>>>> >>, pc |-> 49152, period |-> 1,
            starts |-> {U32(0), <<65535, 65534>>, <<65535, 65528>>}]
\* CMP ($10,X); JMP $C000 at $C000 (6 + 3 cycles a turn)
CmpLoop == [loads |-> << <<49152, <<193, 16, 76, 0, 192>>>> >>, pc |-> 49152,
            period |-> 2,
            starts |-> {U32(0), <<65535, 65534>>, <<65535, 65528>>}]
\* the zero bytes construction leaves at $C000, none an implemented opcode
BrkField == [loads |-> <<>>, pc |-> 49152, period |-> 0, starts |-> {U32(0)}]

RunPrograms == {BneLoop, JmpLoop, CmpLoop, BrkField}
RunCounts == {U32(0), U32(1), U32(4), U32(7), <<65535, 65535>>}

\* uint32_t target_cycles = cycles + num_cycles;
ExecuteCall(num_cycles) ==
    /\ target_cycles = <<>>
    /\ target_cycles' = <<Add32(cycles, num_cycles)>>
    /\ Commit(Cur)
    /\ hist' = Append(hist, Ev("execute", num_cycles, cycles,
                               Add32(cycles, num_cycles)))
    /\ UNCHANGED dump

\* while (cycles < target_cycles) cpu_step();
ExecuteStep(inp) ==
    /\ target_cycles # <<>>
    /\ Less32(cycles, target_cycles[1])
    /\ Step(inp)

\* the loop's exit
ExecuteReturn ==
    /\ target_cycles # <<>>
    /\ ~Less32(cycles, target_cycles[1])
    /\ target_cycles' = <<>>
    /\ Commit(Cur)
    /\ hist' = Append(hist, Ev("return", 0, 0, 0))
    /\ UNCHANGED dump

InitRun ==
    \E layout \in Layouts, prog \in RunPrograms :
        \E c0 \in prog.starts :
            Boot(layout, [StepN(cpu_set_pc(LoadAll(Constructed(layout), prog.loads),
                                    prog.pc), prog.period)
                       EXCEPT !.cycles = c0])

NextRun ==
    \/ \E n \in RunCounts : Len(hist) < MaxRunOps /\ ExecuteCall(n)
    \/ \E inp \in NoInput : Len(hist) < MaxRunOps /\ ExecuteStep(inp)
    \/ Len(hist) < MaxRunOps /\ ExecuteReturn

SpecRun == InitRun /\ [][NextRun]_vars

-----------------------------------------------------------------------------
(* Single instructions at the edges of their operand ranges.  Each case   *)
(* is a set of memory_load calls, a start address and a status byte the   *)
(* host sets before the first step.                                        *)

EdgeBytes == {0, 1, 127, 128, 255}
CmpBytes == {0, 1, 2, 64, 127, 128, 129, 200, 254, 255}
InsStatus == {0, 195}

InsCase(loads, pc, status) == [loads |-> loads, pc |-> pc, status |-> status]

\* LDX #v; INX; DEX; DEX / LDY #v; INY; DEY; DEY / LDA #v; TAX; TAY /
\* LDX #v; TXA; TXS; LDX #1; TSX / LDY #v; TYA /
\* LDA $10; LDX $11; LDY $2010 with v at $10 and $2010, 255 - v at $11
RegisterPrograms(v) ==
    { <<162, v, 232, 202, 202>>, <<160, v, 200, 136, 136>>,
      <<169, v, 170, 168>>, <<162, v, 138, 154, 162, 1, 186>>,
      <<160, v, 152>>, <<165, 16, 166, 17, 172, 16, 32>> }

RegisterCases ==
    UNION { { InsCase(<< <<49152, prog>>, <<16, <<v, 255 - v>>>>,
                         <<8208, <<v>>>> >>, 49152, status) :
                  prog \in RegisterPrograms(v), status \in InsStatus } :
            v \in EdgeBytes }

\* LDA #a; CMP #m; CMP $10 with m + 128 mod 256 at $10
CompareCases ==
    { InsCase(<< <<49152, <<169, a, 201, m, 197, 16>>>>,
                 <<16, <<(m + 128) % 256>>>> >>, 49152, status) :
        a \in CmpBytes, m \in CmpBytes, status \in InsStatus }

BranchOps == {240, 208, 176, 144, 48, 16, 112, 80}
BranchOffsets == {0, 2, 127, 128, 254}

\* a branch at $C000 and at $0010, and one at $FFF0 in the RAM under the
\* KERNAL ROM, reached by LDA #$35; STA $01; JMP $FFF0 from $0800
BranchCases ==
    { InsCase(<< <<p, <<op, o>>>> >>, p, status) :
        p \in {49152, 16}, op \in BranchOps, o \in BranchOffsets,
        status \in InsStatus } \cup
    { InsCase(<< <<2048, <<169, 53, 133, 1, 76, 240, 255>>>>,
                 <<65520, <<op, o>>>> >>, 2048, status) :
        op \in BranchOps, o \in BranchOffsets, status \in InsStatus }

\* JMP (ptr) at $0800 with $2000 = $CD, $2010 = $78, $2011 = $56,
\* $20FE = $9A, $20FF = $34, $2100 = $12
IndirectPointers == {8447, 8446, 8208, 8192}
IndirectCases ==
    { InsCase(<< <<2048, <<108, ptr % 256, ptr \div 256>>>>,
                 <<8192, <<205>>>>, <<8208, <<120, 86>>>>,
                 <<8446, <<154, 52, 18>>>> >>, 2048, 0) :
        ptr \in IndirectPointers }

\* LDY #y; LDA (zp),Y; CMP (zp),Y; STA (zp),Y at $0800 with $FF = $10,
\* $00 = $20, $10 = $FE, $11 = $FF, $0100 = $21 and distinct bytes at the
\* addresses a pointer of $2010, $2110 or $FFFE can reach
IndexedPointers == {255, 16}
IndexedCases ==
    { InsCase(<< <<2048, <<160, y, 177, zp, 209, zp, 145, zp>>>>,
                 <<255, <<16, 33>>>>, <<0, <<32>>>>, <<16, <<254, 255>>>>,
                 <<8208, <<119, 1, 2, 3, 4, 85>>>>, <<8463, <<51>>>>,
                 <<8464, <<200, 5, 6, 7, 8, 201>>>>, <<3, <<102>>>>,
                 <<8719, <<68>>>> >>,
              2048, 0) :
        y \in {0, 5, 255}, zp \in IndexedPointers }

InsCases ==
    RegisterCases \cup CompareCases \cup BranchCases \cup IndirectCases
        \cup IndexedCases

\* memory_init(); cpu_init(); the loads; set_pc; cpu_set_status
InitIns ==
    \E layout \in Layouts, c \in InsCases :
        Boot(layout, cpu_set_status(
                  cpu_set_pc(LoadAll(Constructed(layout), c.loads), c.pc),
                  c.status))

NextIns ==
    \E inp \in NoInput : Len(hist) < MaxInsSteps /\ Step(inp)

SpecIns == InitIns /\ [][NextIns]_vars

-----------------------------------------------------------------------------
(* The memory operations next to a program that stores into the ROM and   *)
(* I/O regions: LDA #$42; STA $A000; STA $D000; STA $FFFF at $C000.        *)

MemProgram == << <<49152, <<169, 66, 141, 0, 160, 141, 0, 208, 141, 255, 255>>>> >>
\* <<address, value>>: the port with both, and with neither, of I/O and
\* character ROM switched off, and a byte of the I/O region
MemWrites == {<<1, 0>>, <<1, 1>>, <<53248, 153>>}
\* a load onto the processor port and one that overruns the 64 KiB
MemLoads == {<<1, <<1>>>>, <<65534, <<1, 2, 3, 4>>>>}
\* a file that cannot be opened and a file shorter than the image
MemRomLoads == {<<"kernal_rom", FALSE, <<>>>>, <<"char_rom", TRUE, <<17, 34>>>>}
MemInterrupts == {TRUE}

InitMem ==
    \E layout \in Layouts :
        Boot(layout, cpu_set_pc(LoadAll(Constructed(layout), MemProgram), 49152))

NextMem ==
    \/ \E w \in MemWrites : Len(hist) < MaxMemOps /\ Write(w[1], w[2])
    \/ \E l \in MemLoads : Len(hist) < MaxMemOps /\ Load(l[1], l[2])
    \/ \E r \in MemRomLoads : Len(hist) < MaxMemOps /\ LoadRom(r[1], r[2], r[3])
    \/ \E inp \in NoInput : Len(hist) < MaxMemOps /\ Step(inp)
    \/ \E is_nmi \in MemInterrupts : Len(hist) < MaxMemOps /\ Interrupt(is_nmi)
    \/ Len(hist) < MaxMemOps /\ Reset

SpecMem == InitMem /\ [][NextMem]_vars

-----------------------------------------------------------------------------
(* Stack accesses of instructions and interrupts at the ends of the stack *)
(* page.  The machine has run LDX #sp; TXS at $C000; what follows is      *)
(* either JSR $C010; JSR $FFD2 with RTS at $C010, or RTS.  Pages 0, 1     *)
(* and 2 hold distinct bytes around the page boundaries.                   *)

StackPrograms == {<<32, 16, 192, 32, 210, 255>>, <<96>>}
StackMarkers ==
    << <<254, <<171, 205>>>>, <<256, <<52, 18, 86>>>>,
       <<509, <<120, 154, 188>>>>, <<512, <<239, 190>>>>, <<49168, <<96>>>> >>

InitStack ==
    \E layout \in Layouts, sp \in StackPointers, prog \in StackPrograms :
        Boot(layout, StepN(cpu_set_pc(
            LoadAll(Constructed(layout),
                    << <<49152, <<162, sp, 154>> \o prog>> >> \o StackMarkers),
            49152), 2))

NextStack ==
    \/ \E inp \in NoInput : Len(hist) < MaxStackOps /\ Step(inp)
    \/ \E is_nmi \in BOOLEAN : Len(hist) < MaxStackOps /\ Interrupt(is_nmi)

SpecStack == InitStack /\ [][NextStack]_vars

-----------------------------------------------------------------------------
(* The machine as init_emulator() leaves it, with each ROM file either    *)
(* missing or shorter than its image.                                      *)

SCREEN_MEMORY_START == 1024
COLOR_RAM_START == 55296

\* io_clear_screen(): memory_write(SCREEN_MEMORY_START + i, 32) and
\* memory_write(COLOR_RAM_START + i, 14) for i = 0..999.  The banking does
\* not change during the loop, so the stores to the colour RAM all arrive
\* or are all discarded.
io_clear_screen(s) ==
    LET screen == SCREEN_MEMORY_START..(SCREEN_MEMORY_START + 999)
        colour == IF s.io_enabled \/ ~s.char_rom_enabled
                  THEN COLOR_RAM_START..(COLOR_RAM_START + 999) ELSE {}
    IN [s EXCEPT !.ram = [x \in (DOMAIN s.ram) \cup screen \cup colour |->
                            IF x \in screen THEN 32
                            ELSE IF x \in colour THEN 14 ELSE s.ram[x]]]

\* the start-up program of main.c: LDA #$01; STA $02; JMP $A000
StartupProgram == <<169, 1, 133, 2, 76, 0, 160>>

\* load_roms(): files[k] is <<whether fopen succeeds, the bytes read>> for
\* the BASIC, KERNAL and character ROM file
load_roms(s, files) ==
    memory_load_rom(
        memory_load_rom(
            memory_load_rom(s, "basic_rom", files[1][1], files[1][2]),
            "kernal_rom", files[2][1], files[2][2]),
        "char_rom", files[3][1], files[3][2])

init_emulator(layout, files) ==
    LET s1 == load_roms(memory_init(cpu_zero, U32(0), layout), files)
        s2 == io_clear_screen(cpu_init(s1))
        s3 == memory_load(s2, 2048, StartupProgram)
        s4 == memory_write(memory_write(s3, 65532, 0), 65533, 8)
    IN cpu_reset(s4)

RomFiles == {<<FALSE, <<>>>>, <<TRUE, <<17, 34>>>>}
BootReads == {65532, 65533}

InitBoot ==
    \E layout \in Layouts, files \in RomFiles \X RomFiles \X RomFiles :
        Boot(layout, init_emulator(layout, files))

NextBoot ==
    \/ \E inp \in NoInput : Len(hist) < MaxBootOps /\ Step(inp)
    \/ \E addr \in BootReads : Len(hist) < MaxBootOps /\ Read(addr)
    \/ Len(hist) < MaxBootOps /\ Reset

SpecBoot == InitBoot /\ [][NextBoot]_vars

-----------------------------------------------------------------------------
(* Indexed addressing.  At the zero-page addresses an operand can reach,  *)
(* page 0 holds (3 z + 52) mod 256 at $00 + z (so $01 keeps the port byte  *)
(* $37) and page 1 holds (5 z + 9) mod 256 at $0100 + z, so that every     *)
(* byte of page 0 differs from the byte 256 above it.  The machine has     *)
(* run LDA #$A7; LDX #x; LDY #y at $C000, and the instruction under test   *)
(* follows at $C006.                                                       *)

AddrOpcodes == {180, 181, 148, 149, 182, 150, 188, 189, 157, 185, 190, 153,
                161, 129}
AddrBytes == {0, 1, 127, 128, 254, 255}
AddrHighBytes == {0, 32, 255}
AddrIndexes == {<<0, 255>>, <<1, 128>>, <<255, 1>>, <<128, 2>>, <<2, 0>>}

AddrBlock(first, n, mul, add) ==
    <<first, [k \in 1..n |-> (mul * ((first + k - 1) % 256) + add) % 256]>>
AddrPages ==
    << AddrBlock(0, 5, 3, 52), AddrBlock(126, 6, 3, 52),
       AddrBlock(253, 3, 3, 52), AddrBlock(256, 5, 5, 9),
       AddrBlock(382, 6, 5, 9), AddrBlock(509, 3, 5, 9) >>

InitAddr ==
    \E layout \in Layouts, opcode \in AddrOpcodes, b \in AddrBytes,
       h \in AddrHighBytes, r \in AddrIndexes :
        Boot(layout, StepN(cpu_set_pc(
            LoadAll(Constructed(layout),
                    AddrPages \o
                    << <<49152, <<169, 167, 162, r[1], 160, r[2],
                                  opcode, b, h, 234>>>> >>), 49152), 3))

NextAddr ==
    \E inp \in NoInput : Len(hist) < MaxAddrSteps /\ Step(inp)

SpecAddr == InitAddr /\ [][NextAddr]_vars

-----------------------------------------------------------------------------
(* The cycle counter under every call of the core.  The program at $C000  *)
(* is one instruction of any opcode value with the operand $C010, and the  *)
(* host steps, interrupts, resets, sets pc and the flags, and writes and   *)
(* loads memory in any order.                                              *)

CycStatus == {0}
CycWrites == {<<1, 53>>}
CycLoads == {<<49153, <<18>>>>}

InitCyc ==
    \E layout \in Layouts, opcode \in Opcodes :
        Boot(layout, cpu_set_pc(LoadAll(Constructed(layout),
                                 << <<49152, <<opcode, 16, 192, 234>>>> >>),
                         49152))

NextCyc ==
    \/ \E inp \in NoInput : Len(hist) < MaxCycOps /\ Step(inp)
    \/ \E is_nmi \in BOOLEAN : Len(hist) < MaxCycOps /\ Interrupt(is_nmi)
    \/ \E status \in CycStatus : Len(hist) < MaxCycOps /\ SetStatus(status)
    \/ \E addr \in PcValues : Len(hist) < MaxCycOps /\ SetPc(addr)
    \/ \E w \in CycWrites : Len(hist) < MaxCycOps /\ Write(w[1], w[2])
    \/ \E l \in CycLoads : Len(hist) < MaxCycOps /\ Load(l[1], l[2])
    \/ Len(hist) < MaxCycOps /\ Reset

SpecCyc == InitCyc /\ [][NextCyc]_vars

-----------------------------------------------------------------------------
(* The flags under step, cpu_execute, interrupt and reset.  The program   *)
(* at $C000 is one instruction of any opcode value with the operand        *)
(* $C010; the host may set D, B and V and clear I with cpu_set_status.     *)

FlagStatus == {88}
FlagRunCounts == {U32(1)}

InitFlag ==
    \E layout \in Layouts, opcode \in Opcodes :
        Boot(layout, cpu_set_pc(LoadAll(Constructed(layout),
                                 << <<49152, <<opcode, 16, 192, 234>>>> >>),
                         49152))

Idle == target_cycles = <<>> /\ Len(hist) < MaxFlagOps

NextFlag ==
    \/ \E inp \in NoInput : Idle /\ Step(inp)
    \/ \E is_nmi \in BOOLEAN : Idle /\ Interrupt(is_nmi)
    \/ Idle /\ Reset
    \/ \E status \in FlagStatus : Idle /\ SetStatus(status)
    \/ \E n \in FlagRunCounts : Idle /\ ExecuteCall(n)
    \/ \E inp \in NoInput : Len(hist) < MaxFlagOps + 2 /\ ExecuteStep(inp)
    \/ Len(hist) < MaxFlagOps + 2 /\ ExecuteReturn

SpecFlag == InitFlag /\ [][NextFlag]_vars

-----------------------------------------------------------------------------
(* memory_dump, one iteration of its loop at a time.  dump is <<>>        *)
(* outside memory_dump and holds <<addr, end_address>> inside it.  Each    *)
(* memory_read of the loop is entered in hist as a read.                   *)

DumpStarts == {0, 16, 40960, 65534, 65535}
DumpLengths == {0, 1, 2, 3}
DumpPorts == {53, 55}

\* uint16_t end_address = start_address + length - 1; the comparison of
\* end_address with MEMORY_SIZE that follows is never true for a uint16_t
DumpCall(start_address, length) ==
    /\ dump = <<>> /\ target_cycles = <<>>
    /\ dump' = <<start_address, U16(start_address + length + 65535)>>
    /\ Commit(Cur)
    /\ hist' = Append(hist, Ev("dump", start_address, length, 0))
    /\ UNCHANGED target_cycles

\* for (uint16_t addr = start_address; addr <= end_address; addr++)
\*     printf("%02X ", memory_read(addr));
DumpRead ==
    /\ dump # <<>>
    /\ dump[1] <= dump[2]
    /\ dump' = <<U16(dump[1] + 1), dump[2]>>
    /\ Commit(Cur)
    /\ hist' = Append(hist, Ev("read", dump[1], 0, memory_read(Cur, dump[1])))
    /\ UNCHANGED target_cycles

\* the loop's exit
DumpReturn ==
    /\ dump # <<>>
    /\ dump[1] > dump[2]
    /\ dump' = <<>>
    /\ Commit(Cur)
    /\ hist' = Append(hist, Ev("return", 0, 0, 0))
    /\ UNCHANGED target_cycles

InitDump == \E layout \in Layouts : Boot(layout, Constructed(layout))

NextDump ==
    \/ \E start \in DumpStarts, length \in DumpLengths :
          Len(hist) < MaxDumpOps /\ DumpCall(start, length)
    \/ Len(hist) < MaxDumpOps /\ DumpRead
    \/ Len(hist) < MaxDumpOps /\ DumpReturn
    \/ \E port \in DumpPorts :
          Len(hist) < MaxDumpOps /\ dump = <<>> /\ Write(PortAddr, port)

SpecDump == InitDump /\ [][NextDump]_vars

-----------------------------------------------------------------------------
(* The RAM under the BASIC and KERNAL ROMs.  The host has banked both     *)
(* ROMs out with port byte $34; it then writes and reads one address of    *)
(* its choice and banks the ROMs in and out through the port.  The byte    *)
(* it writes tells the position of the write in the run.                   *)

RamAddrs == {40960, 57344}
RamPorts == {52, 53, 55}

\* every access of the run so far, but for those of the port, is to addr
RunAddr(addr) ==
    \A k \in 1..Len(hist) : hist[k].addr # PortAddr => hist[k].addr = addr

InitRam ==
    \E layout \in Layouts :
        Boot(layout, memory_write(Constructed(layout), PortAddr, 52))

NextRam ==
    \/ \E addr \in RamAddrs :
          Len(hist) < MaxRamOps /\ RunAddr(addr)
              /\ Write(addr, 65 + Len(hist))
    \/ \E addr \in RamAddrs :
          Len(hist) < MaxRamOps /\ RunAddr(addr) /\ Read(addr)
    \/ \E port \in RamPorts : Len(hist) < MaxRamOps /\ Write(PortAddr, port)

SpecRam == InitRam /\ [][NextRam]_vars

-----------------------------------------------------------------------------
(* A program that changes the banking in front of banked memory.  The     *)
(* machine has run LDA #port at $9FFC; STA $01 follows at $9FFE, and the   *)
(* RAM under the BASIC ROM holds LDA #$77; JMP $E000 at $A000, the RAM     *)
(* under the KERNAL ROM LDX #$55 at $E000 and the vectors $9000, $0800,    *)
(* $1234.  The byte the port held before the program ran is also kept at   *)
(* $02; the host may have loaded it onto the port.                         *)

BankPorts == {55, 53, 52, 51, 48}
BankPreloads == {55, 0, 5}
BankStatus == {0, 4}

BankProgram(port, old) ==
    << <<40956, <<169, port, 133, 1, 169, 119, 76, 0, 224>>>>,
       <<57344, <<162, 85>>>>,
       <<NMI_VECTOR, <<0, 144, 0, 8, 52, 18>>>>,
       IF old = 55 THEN <<2, <<55>>>> ELSE <<1, <<old, old>>>> >>

InitBank ==
    \E layout \in Layouts, port \in BankPorts, old \in BankPreloads,
       status \in BankStatus :
        Boot(layout, cpu_set_status(
                  StepN(cpu_set_pc(LoadAll(Constructed(layout),
                                           BankProgram(port, old)), 40956), 1),
                  status))

NextBank ==
    \/ \E inp \in NoInput : Len(hist) < MaxBankOps /\ Step(inp)
    \/ \E is_nmi \in BOOLEAN : Len(hist) < MaxBankOps /\ Interrupt(is_nmi)
    \/ Len(hist) < MaxBankOps /\ Reset

SpecBank == InitBank /\ [][NextBank]_vars

-----------------------------------------------------------------------------
(* Properties of the memory subsystem *)

ProbeAddrs == {1, 40960, 49151, 49152, 53248, 57343, 57344, 65532, 65535}
BasicProbe == {40960, 45000, 49151}
KernalProbe == {57344, 65532, 65535}

\* the byte of the region the banking flags select for addr
ByteByFlags(s, addr) ==
    LET page == addr \div 256
    IN IF page >= 208 /\ page <= 223 /\ s.io_enabled THEN RamAt(s, addr)
       ELSE IF page >= 160 /\ page <= 191 /\ s.basic_rom_enabled
       THEN BasicAt(s, addr - 40960)
       ELSE IF page >= 224 /\ page <= 255 /\ s.kernal_rom_enabled
       THEN KernalAt(s, addr - 57344)
       ELSE IF page >= 208 /\ page <= 223 /\ ~s.io_enabled /\ s.char_rom_enabled
       THEN CharAt(s, addr - 53248)
       ELSE RamAt(s, addr)

\* the processor-port decode of a byte: <<basic, kernal, char, io>>
PortDecode(v) ==
    <<Bit(v, 0) = 1 \/ Bit(v, 1) = 1,
      Bit(v, 1) = 1,
      Bit(v, 2) = 0 /\ (Bit(v, 0) = 1 \/ Bit(v, 1) = 1),
      Bit(v, 2) = 1>>

Flags(s) == <<s.basic_rom_enabled, s.kernal_rom_enabled, s.char_rom_enabled,
              s.io_enabled>>

\* the page table that agrees with the flags <<basic, kernal, char, io>>
TableFor ==
    [f \in BOOLEAN \X BOOLEAN \X BOOLEAN \X BOOLEAN |->
        [i \in 0..255 |-> PageEntry(f[1], f[2], f[3], f[4], i)]]

IsWrite(e, addr, v) == e.op = "write" /\ e.addr = addr /\ e.val = v

\* C1: at every read the page dispatch table agrees with the banking flags:
\* read(addr) returns the byte of the region the current flags select.
C1_ReadFollowsFlags ==
    alive =>
        \A addr \in ProbeAddrs : memory_read(Cur, addr) = ByteByFlags(Cur, addr)

\* C2: while basic_enabled (kernal_enabled), write(addr, v) to the BASIC
\* (KERNAL) range followed by read(addr) returns the ROM byte, and the write
\* changes neither the ROM image nor the RAM underneath.
C2_RomWriteDiscarded ==
    /\ (alive /\ basic_rom_enabled) =>
         \A addr \in BasicProbe, v \in {0, 66} :
             LET t == memory_write(Cur, addr, v)
             IN /\ memory_read(t, addr) = BasicAt(Cur, addr - 40960)
                /\ t.basic_rom = basic_rom
                /\ t.ram = ram
    /\ (alive /\ kernal_rom_enabled) =>
         \A addr \in KernalProbe, v \in {0, 66} :
             LET t == memory_write(Cur, addr, v)
             IN /\ memory_read(t, addr) = KernalAt(Cur, addr - 57344)
                /\ t.kernal_rom = kernal_rom
                /\ t.ram = ram

\* C3: in every reachable state of the running machine the four banking
\* flags equal the processor-port decode of ram[0x0001].
C3_FlagsDecodePort == alive => Flags(Cur) = PortDecode(RamAt(Cur, 1))

\* C4: after memory init() with no ROM file loaded the KERNAL image holds
\* the NMI, RESET and IRQ vectors $FE43, $E000, $FF48 at offsets
\* 0x1FFA..0x1FFF, they are read at $FFFA..$FFFF, and CPU init() leaves
\* pc = $E000.
C4_VectorsInstalled ==
    (alive /\ hist = <<>>) =>
        /\ <<KernalAt(Cur, 8186), KernalAt(Cur, 8187), KernalAt(Cur, 8188),
             KernalAt(Cur, 8189), KernalAt(Cur, 8190), KernalAt(Cur, 8191)>>
           = <<67, 254, 0, 224, 72, 255>>
        /\ <<memory_read(Cur, 65530), memory_read(Cur, 65531),
             memory_read(Cur, 65532), memory_read(Cur, 65533),
             memory_read(Cur, 65534), memory_read(Cur, 65535)>>
           = <<67, 254, 0, 224, 72, 255>>
        /\ cpu.pc = 57344

\* C5: a write of v to $0001 stores v, sets the banking flags to the
\* decode of v's bits 0..2 (bits 3..7 have no effect), and rebuilds the
\* page table whenever bits 0..2 differ from those of the byte stored
\* before.
C5_PortWrite ==
    [][(hist' # hist /\ Last'.op = "write" /\ Last'.addr = 1) =>
         LET v == Last'.val
         IN /\ RamAt(Cur, 1)' = v
            /\ Flags(Cur)' = PortDecode(v)
            /\ Flags(Cur)' = PortDecode(Low3(v))
            /\ Low3(v) # Low3(RamAt(Cur, 1)) =>
                 memory_read_map' = TableFor[PortDecode(v)]]_vars

C5_Witness ==
    /\ Len(hist) = 2
    /\ IsWrite(hist[1], 1, 5)
    /\ IsWrite(hist[2], 1, 48)
    /\ RamAt(Cur, 1) = 48
    /\ Flags(Cur) = <<FALSE, FALSE, FALSE, FALSE>>
    /\ memory_read_map[160] = "memory"

\* C6: after init(), a write to $0001 of a value whose bits 0..2 are clear
\* (0x00 or 0x30 directly, or 0x30 after a preceding 0x07) disables all
\* ROMs, I/O and char, so every read in $A000..$BFFF returns the RAM byte
\* (0 at $A000); writing 0x07 afterwards restores read($A000) = 0xEA.
AllOff(h) ==
    \/ Len(h) = 1 /\ h[1].op = "write" /\ h[1].addr = 1 /\ Low3(h[1].val) = 0
    \/ Len(h) = 2 /\ IsWrite(h[1], 1, 7) /\ IsWrite(h[2], 1, 48)

C6_BankingToggle ==
    /\ AllOff(hist) =>
         /\ Flags(Cur) = <<FALSE, FALSE, FALSE, FALSE>>
         /\ \A addr \in BasicProbe : memory_read(Cur, addr) = RamAt(Cur, addr)
         /\ memory_read(Cur, 40960) = 0
    /\ (Len(hist) >= 2 /\ AllOff(SubSeq(hist, 1, Len(hist) - 1))
        /\ IsWrite(Last, 1, 7)) =>
         memory_read(Cur, 40960) = 234

C6_Witness ==
    /\ Len(hist) = 3
    /\ IsWrite(hist[1], 1, 7) /\ IsWrite(hist[2], 1, 48) /\ IsWrite(hist[3], 1, 7)
    /\ memory_read(Cur, 40960) = 234
    /\ RamAt(Cur, 40960) = 0

-----------------------------------------------------------------------------
(* Properties of the interpreter *)

Bytes == 0..255
ProbeWords == {0, 255, 256, 49154, 65280, 65535}
Or20(status) == status + 32 * (1 - Bit(status, 5))
Prev == hist[Len(hist) - 1]

\* C7: a byte pushed and immediately pulled comes back unchanged and sp is
\* restored, for every byte and every sp (wrap-around included); push16(w)
\* followed by pull16() returns w, and push16 stores the high byte at
\* $0100|sp (pushed first) and the low byte at $0100|(sp-1).
C7_StackRoundTrip ==
    /\ alive => \A v \in Bytes :
         LET r == cpu_pull_byte(cpu_push_byte(Cur, v))
         IN r.v = v /\ r.s.cpu.sp = cpu.sp
    /\ alive => \A w \in ProbeWords :
         LET r == cpu_pull_word(cpu_push_word(Cur, w))
         IN r.v = w /\ r.s.cpu.sp = cpu.sp
    /\ (Len(hist) >= 2 /\ Prev.op = "push8" /\ Last.op = "pull8") =>
         Last.res = Prev.val /\ cpu.sp = Prev.sp
    /\ (Len(hist) >= 2 /\ Prev.op = "push16" /\ Last.op = "pull16") =>
         Last.res = Prev.val /\ cpu.sp = Prev.sp
    /\ (hist # <<>> /\ Last.op = "push16") =>
         /\ RamAt(Cur, 256 + Last.sp) = Hi(Last.val)
         /\ RamAt(Cur, 256 + ((Last.sp + 255) % 256)) = Lo(Last.val)
         /\ cpu.sp = (Last.sp + 254) % 256
    /\ (hist # <<>> /\ Last.op \in {"push8", "push16", "pull8", "pull16"}) =>
         Last.addr \in 256..511

C7_Witness ==
    /\ Len(hist) = 2
    /\ hist[1].op = "push16" /\ hist[1].val = 49154 /\ hist[1].sp = 0
    /\ hist[2].op = "pull16" /\ hist[2].res = 49154 /\ hist[2].sp = 254
    /\ cpu.sp = 0
    /\ RamAt(Cur, 256) = 192 /\ RamAt(Cur, 511) = 2

\* C8: set_status(s) followed by get_status() returns s | 0x20 for every
\* byte s; get_status() followed by set_status of that byte leaves the
\* seven flags unchanged; the packed layout is N V 1 B D I Z C (bits 7..0).
PackedLayout(status, c) ==
    /\ Bit(status, 0) = c.c /\ Bit(status, 1) = c.z /\ Bit(status, 2) = c.i
    /\ Bit(status, 3) = c.d /\ Bit(status, 4) = c.b
    /\ Bit(status, 6) = c.v /\ Bit(status, 7) = c.n

C8_StatusRoundTrip ==
    /\ \A status \in Bytes :
         LET t == cpu_set_status(Cur, status)
         IN /\ cpu_get_status(t) = Or20(status)
            /\ PackedLayout(status, t.cpu)
    /\ cpu_set_status(Cur, cpu_get_status(Cur)) = Cur
    /\ PackedLayout(cpu_get_status(Cur), cpu) /\ Bit(cpu_get_status(Cur), 5) = 1
    /\ (Len(hist) >= 2 /\ Prev.op = "set_status" /\ Last.op = "get_status") =>
         Last.res = Or20(Prev.val)
    /\ (Len(hist) >= 2 /\ Prev.op = "get_status" /\ Last.op = "set_status"
        /\ Last.val = Prev.res) =>
         cpu_get_status(Cur) = Prev.res

C8_Witness ==
    /\ Len(hist) = 2
    /\ hist[1].op = "set_status" /\ hist[1].val = 223
    /\ hist[2].op = "get_status" /\ hist[2].res = 255
    /\ cpu.n = 1 /\ cpu.v = 1 /\ cpu.b = 1 /\ cpu.d = 1 /\ cpu.i = 1
    /\ cpu.z = 1 /\ cpu.c = 1

IsStep(e, opcode) == e.op = "step" /\ e.val = opcode

\* C9: a step executing JSR at p to a target below $FF00 with stack
\* pointer s writes high(p+2) to $0100|s and low(p+2) to $0100|(s-1), sets
\* sp = s-2 mod 256 and pc = target; an RTS executed next, with those two
\* stack bytes intact, sets pc = p+3 and sp = s.
C9_JsrRtsPair ==
    /\ (hist # <<>> /\ IsStep(Last, 32)
        /\ Word(RamAt(Cur, U16(Last.pc + 1)), RamAt(Cur, U16(Last.pc + 2))) < 65280) =>
         /\ RamAt(Cur, 256 + Last.sp) = Hi(U16(Last.pc + 2))
         /\ RamAt(Cur, 256 + ((Last.sp + 255) % 256)) = Lo(U16(Last.pc + 2))
         /\ cpu.sp = (Last.sp + 254) % 256
         /\ cpu.pc = Word(RamAt(Cur, U16(Last.pc + 1)), RamAt(Cur, U16(Last.pc + 2)))
    /\ (Len(hist) >= 2 /\ IsStep(Prev, 32) /\ IsStep(Last, 96)) =>
         /\ cpu.pc = U16(Prev.pc + 3)
         /\ cpu.sp = Prev.sp

\* C10: E2E-2.  With 20 10 C0 EA at $C000 and 60 at $C010, from pc = $C000
\* and sp = 0xFD: after the JSR step the top two stack bytes are $C0 at
\* $01FD and $02 at $01FC; after three steps pc = $C003, sp = 0xFD and the
\* next opcode is 0xEA.
IsE2E2Run ==
    /\ hist # <<>> /\ hist[1].op = "step" /\ hist[1].pc = 49152 /\ hist[1].sp = 253
    /\ <<RamAt(Cur, 49152), RamAt(Cur, 49153), RamAt(Cur, 49154),
         RamAt(Cur, 49155), RamAt(Cur, 49168)>> = <<32, 16, 192, 234, 96>>

C10_E2E2 ==
    IsE2E2Run =>
        /\ Len(hist) = 1 => RamAt(Cur, 509) = 192 /\ RamAt(Cur, 508) = 2
        /\ Len(hist) = 3 =>
             cpu.pc = 49155 /\ cpu.sp = 253 /\ memory_read(Cur, cpu.pc) = 234

-----------------------------------------------------------------------------
(* Properties of programs run step by step *)

IsE2E1Run ==
    /\ hist # <<>> /\ hist[1].op = "step" /\ hist[1].pc = 2048
    /\ \A k \in 1..Len(hist) : hist[k].op = "step"
    /\ [k \in 0..8 |-> RamAt(Cur, 2048 + k)]
         = [k \in 0..8 |-> <<169, 66, 201, 66, 240, 2, 0, 0, 234>>[k + 1]]

\* C11 as stated: E2E-1.  With A9 42 C9 42 F0 02 00 00 EA at $0800, from
\* pc = $0800, after four steps A = 0x42, Z = 1, C = 1, N = 0 and pc = $0808.
C11_E2E1_FourSteps ==
    (IsE2E1Run /\ Len(hist) = 4) =>
        /\ cpu.a = 66 /\ cpu.z = 1 /\ cpu.c = 1 /\ cpu.n = 0
        /\ cpu.pc = 2056

\* C11 amended: the BEQ is the third step, so A = 0x42, Z = 1, C = 1, N = 0
\* and pc = $0808 hold after three steps; the fourth step executes the EA
\* at $0808 and leaves the registers and flags alone with pc = $0809.
C11_E2E1 ==
    (IsE2E1Run /\ Len(hist) \in {3, 4}) =>
        /\ cpu.a = 66 /\ cpu.z = 1 /\ cpu.c = 1 /\ cpu.n = 0
        /\ cpu.pc = 2056 + (Len(hist) - 3)
        /\ Len(hist) = 3 => memory_read(Cur, cpu.pc) = 234

C11_Witness ==
    /\ IsE2E1Run /\ Len(hist) = 3
    /\ hist[3].val = 240 /\ hist[3].pc = 2052
    /\ cpu.pc = 2056 /\ cpu.a = 66 /\ cpu.z = 1

\* the event a transition appends to hist
New == hist'[Len(hist')]
Stepped == Len(hist') = Len(hist) + 1 /\ New.op = "step"

\* the opcode at pc and the word that follows it, as a step fetches them
Fetched == memory_read(Cur, cpu.pc)
OperandWord ==
    Word(memory_read(Cur, U16(cpu.pc + 1)), memory_read(Cur, U16(cpu.pc + 2)))
IsTrap == Fetched = 32 /\ OperandWord >= 65280

\* C12: a step executing a JSR at p whose target is in $FF00..$FFFF calls
\* the KERNAL routine emulation exactly once, with that target, and ends
\* with pc = p + 3 and sp as before the step; unless the target is $FFCF
\* or $FFE4, a, x, y and every flag are unchanged.  No other step calls it.
C12_KernalTrap ==
    [][Stepped =>
         /\ IsTrap =>
              /\ New.res = <<OperandWord>>
              /\ cpu'.pc = U16(cpu.pc + 3)
              /\ cpu'.sp = cpu.sp
              /\ OperandWord \notin {65487, 65508} =>
                   cpu' = [cpu EXCEPT !.pc = U16(cpu.pc + 3)]
              /\ OperandWord = 65490 => cpu'.a = cpu.a
         /\ ~IsTrap => New.res = <<>>]_vars

C12_Witness ==
    /\ hist # <<>> /\ IsStep(Last, 32) /\ Last.res = <<65331>>
    /\ Last.pc = 507 /\ Last.sp = 253
    /\ cpu.pc = 510 /\ cpu.sp = 253
    /\ RamAt(Cur, 509) = 1 /\ RamAt(Cur, 508) = 253

-----------------------------------------------------------------------------
(* Properties of interrupts and reset *)

\* the machine state a transition leads to
Nxt == [ram |-> ram', basic_rom |-> basic_rom', kernal_rom |-> kernal_rom',
        char_rom |-> char_rom', basic_rom_enabled |-> basic_rom_enabled',
        kernal_rom_enabled |-> kernal_rom_enabled',
        char_rom_enabled |-> char_rom_enabled', io_enabled |-> io_enabled',
        memory_read_map |-> memory_read_map', cpu |-> cpu', cycles |-> cycles']

Interrupted == Len(hist') = Len(hist) + 1 /\ New.op = "interrupt"
Honoured == New.val = 1 \/ cpu.i = 0

\* memory and banking state are the same before and after the transition,
\* except for the RAM bytes at the addresses in except
MemoryKept(except) ==
    /\ \A a \in ((DOMAIN ram) \cup (DOMAIN ram')) \ except :
          RamAt(Nxt, a) = RamAt(Cur, a)
    /\ UNCHANGED <<basic_rom, kernal_rom, char_rom, basic_rom_enabled,
                   kernal_rom_enabled, char_rom_enabled, io_enabled,
                   memory_read_map>>

\* C13: an IRQ requested while I = 1 changes nothing: registers, flags,
\* cycle counter and memory are as before.  An NMI, for either value of I,
\* and an IRQ with I = 0 are taken: three bytes are pushed, I is set and
\* the cycle counter advances.
C13_IrqMasked ==
    [][Interrupted =>
         /\ ~Honoured => cpu' = cpu /\ cycles' = cycles /\ MemoryKept({})
         /\ Honoured =>
              /\ cpu'.sp = U8(cpu.sp + 253)
              /\ cpu'.i = 1
              /\ cycles' # cycles]_vars

C13_Witness ==
    /\ Len(hist) >= 2
    /\ Prev.op = "set_status" /\ Prev.val = 255
    /\ Last.op = "interrupt" /\ Last.val = 0
    /\ cpu.i = 1 /\ cpu.sp = Last.sp /\ cpu.pc = Last.pc /\ cpu.pc = 49159

\* the status byte cpu_interrupt pushes for flags f: bit 5 set, bit 4 clear
PushedStatus(f) ==
    f.c + 2 * f.z + 4 * f.i + 8 * f.d + 32 + 64 * f.v + 128 * f.n

StackAddr(sp, k) == 256 + ((sp + 256 - k) % 256)

\* C14: an interrupt that is taken with program counter p and stack pointer
\* s leaves high(p) at $0100|s, low(p) at $0100|(s-1) and, at $0100|(s-2),
\* the status packed from the flags as they were before I was set, with
\* bit 4 clear and bit 5 set; then I = 1, pc is the word at $FFFA (NMI) or
\* $FFFE (IRQ) read through the banking, the cycle counter is 7 higher,
\* sp = s-3 mod 256, and a, x, y, the other flags and the rest of memory
\* are unchanged.
C14_InterruptSequence ==
    [][(Interrupted /\ Honoured) =>
         LET vector == IF New.val = 1 THEN NMI_VECTOR ELSE IRQ_VECTOR
         IN /\ RamAt(Nxt, StackAddr(cpu.sp, 0)) = Hi(cpu.pc)
            /\ RamAt(Nxt, StackAddr(cpu.sp, 1)) = Lo(cpu.pc)
            /\ RamAt(Nxt, StackAddr(cpu.sp, 2)) = PushedStatus(cpu)
            /\ cpu' = [cpu EXCEPT !.i = 1, !.sp = U8(cpu.sp + 253),
                                  !.pc = Word(memory_read(Nxt, vector),
                                              memory_read(Nxt, vector + 1))]
            /\ cycles' = Add32(cycles, U32(7))
            /\ MemoryKept({StackAddr(cpu.sp, 0), StackAddr(cpu.sp, 1),
                           StackAddr(cpu.sp, 2)})]_vars

C14_Witness ==
    /\ Len(hist) >= 2
    /\ Prev.op = "set_status" /\ Prev.val = 251
    /\ Last.op = "interrupt" /\ Last.val = 1 /\ Last.sp = 1
    /\ cpu.sp = 254 /\ cpu.pc = 36864 /\ cpu.i = 1 /\ cpu.b = 1
    /\ RamAt(Cur, 257) = Hi(Last.pc) /\ RamAt(Cur, 256) = Lo(Last.pc)
    /\ RamAt(Cur, 511) = 235

WasReset == Len(hist') = Len(hist) + 1 /\ New.op = "reset"

\* C15: reset() sets pc to the little-endian word a read of $FFFC/$FFFD
\* returns, sp to 0xFD, I to 1 and the cycle counter to 0; a, x, y, the
\* flags C, Z, D, B, V, N, the memory and the banking state stay as they
\* were.
C15_ResetFrame ==
    [][WasReset =>
         /\ cpu' = [cpu EXCEPT !.pc = Word(memory_read(Cur, 65532),
                                           memory_read(Cur, 65533)),
                               !.sp = 253, !.i = 1]
         /\ cycles' = U32(0)
         /\ MemoryKept({})]_vars

C15_Witness ==
    /\ Len(hist) >= 2
    /\ Prev.op = "set_status" /\ Prev.val = 251
    /\ Last.op = "reset" /\ Last.sp = 1 /\ Last.pc = 49159
    /\ cpu.pc = 2048 /\ cpu.sp = 253 /\ cpu.i = 1 /\ cpu.d = 1 /\ cpu.a = 53
    /\ cycles = U32(0)

\* C16: a reset() that directly follows a reset() changes nothing: pc, a,
\* x, y, sp, the flags, the cycle counter and the memory are what the first
\* reset left.
C16_ResetIdempotent ==
    [][(WasReset /\ hist # <<>> /\ Last.op = "reset") =>
         /\ cpu' = cpu
         /\ cycles' = cycles
         /\ MemoryKept({})]_vars

C16_Witness ==
    /\ Len(hist) = 3
    /\ hist[1].op = "step" /\ hist[2].op = "reset" /\ hist[3].op = "reset"
    /\ hist[2].sp = 0 /\ hist[3].sp = 253 /\ hist[3].pc = cpu.pc
    /\ cpu.sp = 253 /\ cycles = U32(0)

-----------------------------------------------------------------------------
(* Properties of the step's decode and program counter update *)

\* the case labels of the switch in cpu_step
ImplementedOpcodes ==
    {16, 32, 48, 76, 80, 96, 108, 112, 129, 132, 133, 134, 136, 138, 140, 141,
     142, 144, 145, 148, 149, 150, 152, 153, 154, 157, 160, 161, 162, 164,
     165, 166, 168, 169, 170, 172, 173, 174, 176, 177, 180, 181, 182, 185,
     186, 188, 189, 190, 193, 197, 200, 201, 202, 205, 208, 209, 213, 217,
     221, 232, 240}

\* the branch at pc is taken
BranchTaken ==
    CASE Fetched = 240 -> cpu.z = 1
      [] Fetched = 208 -> cpu.z = 0
      [] Fetched = 176 -> cpu.c = 1
      [] Fetched = 144 -> cpu.c = 0
      [] Fetched = 48 -> cpu.n = 1
      [] Fetched = 16 -> cpu.n = 0
      [] Fetched = 112 -> cpu.v = 1
      [] Fetched = 80 -> cpu.v = 0
      [] OTHER -> FALSE

\* the target of the instruction at pc: the operand address for JMP, JSR
\* and branches, the word on top of the stack plus one for RTS
Target ==
    IF Fetched = 96
    THEN U16(Word(RamAt(Cur, StackAddr(cpu.sp, -1)),
                  RamAt(Cur, StackAddr(cpu.sp, -2))) + 1)
    ELSE cpu_get_operand_address(Cur, opcode_modes(Fetched))

CyclesAdded ==
    cycles' = Add32(cycles, U32(opcode_cycles(Fetched)))

SizeAdded ==
    /\ opcode_sizes(Fetched) \in {1, 2, 3}
    /\ cpu'.pc = U16(cpu.pc + opcode_sizes(Fetched))

\* C17 as stated: after a step of an instruction that does not set pc,
\* pc = old pc + size[opcode] mod 65536 with size in {1, 2, 3}; after JMP,
\* a taken branch, JSR or RTS, pc is the computed target; in every case the
\* cycle counter grows by base_cycles[opcode].
C17_PcCycleRule_AnyJsr ==
    [][Stepped =>
         /\ IF Fetched \in {76, 108, 32, 96} \/ BranchTaken
            THEN cpu'.pc = Target
            ELSE SizeAdded
         /\ CyclesAdded]_vars

\* C17 amended: as stated, with JSR restricted to targets below $FF00; a
\* JSR whose target is in $FF00..$FFFF ends with pc = old pc + 3.
C17_PcCycleRule ==
    [][Stepped =>
         /\ IF IsTrap
            THEN cpu'.pc = U16(cpu.pc + 3)
            ELSE IF Fetched \in {76, 108, 32, 96} \/ BranchTaken
            THEN cpu'.pc = Target
            ELSE SizeAdded
         /\ CyclesAdded]_vars

C17_Witness ==
    /\ Len(hist) = 2
    /\ IsStep(hist[1], 208) /\ hist[1].pc = 49158 /\ hist[2].pc = 49158
    /\ cpu.pc = 49158 /\ cycles = U32(10) /\ cpu.z = 0

\* C18: a step of an opcode that cpu_step has no case for changes pc to
\* pc + 1 mod 65536 and adds 2 to the cycle counter; a, x, y, sp, the
\* flags, the memory and the banking state are unchanged.
C18_UnknownOpcode ==
    [][(Stepped /\ Fetched \notin ImplementedOpcodes) =>
         /\ cpu' = [cpu EXCEPT !.pc = U16(cpu.pc + 1)]
         /\ cycles' = Add32(cycles, U32(2))
         /\ MemoryKept({})
         /\ New.res = <<>>]_vars

C18_Witness ==
    /\ Len(hist) = 2
    /\ IsStep(hist[1], 0) /\ hist[1].pc = 49158
    /\ IsStep(hist[2], 1) /\ hist[2].pc = 49159
    /\ cpu.pc = 49160 /\ cycles = U32(10) /\ cpu.a = 53 /\ cpu.sp = 253

-----------------------------------------------------------------------------
(* Properties of cpu_execute *)

\* the call of cpu_execute in progress: its argument n and the counter c
\* it found
CallIndex ==
    CHOOSE k \in 1..Len(hist) :
        hist[k].op = "execute" /\ \A j \in (k + 1)..Len(hist) : hist[j].op # "execute"
RunN == hist[CallIndex].addr
RunC == hist[CallIndex].val
StepsSoFar == Len(hist) - CallIndex

Carry32(a, b) == (a[1] + b[1] + ((a[2] + b[2]) \div 65536)) \div 65536

\* x >= c + n and x - (c + n) < 6, over the integers
AtLeastSum(x, c, n) == Carry32(c, n) = 0 /\ ~Less32(x, Add32(c, n))
Overshoot(x, c, n) ==
    LET t == Add32(c, n)
    IN IF x[1] - t[1] > 1 THEN 65536
       ELSE (x[1] - t[1]) * 65536 + x[2] - t[2]

Returned == Len(hist') = Len(hist) + 1 /\ New.op = "return"
SteppedInRun == Stepped /\ target_cycles # <<>>

\* C19: cpu_execute(n) called with the counter at c returns with the
\* counter at least c + n and less than 6 above it; every step it executed
\* started with the counter below c + n; with n = 0 it executes no step.
C19_RunCycles ==
    [][/\ Returned =>
            /\ AtLeastSum(cycles, RunC, RunN)
            /\ Overshoot(cycles, RunC, RunN) < 6
            /\ RunN = U32(0) => Last.op = "execute"
       /\ SteppedInRun => ~AtLeastSum(cycles, RunC, RunN)]_vars

\* C20: cpu_execute(n) returns for every n and every program: each step
\* adds at least 2 to the counter, so the loop is left after at most
\* ceil(n / 2) steps, that is, a step is only ever taken while twice the
\* number of steps already taken in this call is below n.
C20_RunTerminates ==
    [][SteppedInRun => (RunN[1] > 0 \/ 2 * StepsSoFar < RunN[2])]_vars


-----------------------------------------------------------------------------
(* Properties of single instructions *)

LoadA == {169, 165, 181, 173, 189, 185, 161, 177}
LoadX == {162, 166, 182, 174, 190}
LoadY == {160, 164, 180, 172, 188}
CmpOps == {201, 197, 213, 205, 221, 217, 193, 209}

\* the byte the operand of the instruction at pc names, before the step
OperandByte ==
    memory_read(Cur, cpu_get_operand_address(Cur, opcode_modes(Fetched)))

\* the result of the instruction at pc: the new value of the register it
\* writes, or the 8-bit difference CMP forms
Result ==
    CASE Fetched \in LoadA \cup {138, 152} -> cpu'.a
      [] Fetched \in LoadX \cup {170, 186, 232, 202} -> cpu'.x
      [] Fetched \in LoadY \cup {168, 200, 136} -> cpu'.y
      [] Fetched \in CmpOps -> (cpu.a - OperandByte + 256) % 256

\* C21: after a step of LDA/LDX/LDY, TAX/TAY/TXA/TYA/TSX, INX/INY/DEX/DEY
\* or CMP, Z is 1 exactly when the result is 0 and N is bit 7 of the
\* result; loads and transfers deliver the source value, and the
\* increments and decrements wrap modulo 256.
C21_ZeroNegative ==
    [][(Stepped /\ Fetched \in LoadA \cup LoadX \cup LoadY \cup CmpOps
                       \cup {170, 168, 138, 152, 186, 232, 200, 202, 136}) =>
         /\ cpu'.z = (IF Result = 0 THEN 1 ELSE 0)
         /\ cpu'.n = Result \div 128
         /\ Fetched \in LoadA \cup LoadX \cup LoadY => Result = OperandByte
         /\ Fetched \in {170, 168} => Result = cpu.a
         /\ Fetched = 138 => Result = cpu.x
         /\ Fetched = 152 => Result = cpu.y
         /\ Fetched = 186 => Result = cpu.sp
         /\ Fetched = 232 => Result = (cpu.x + 1) % 256
         /\ Fetched = 200 => Result = (cpu.y + 1) % 256
         /\ Fetched = 202 => Result = (cpu.x + 255) % 256
         /\ Fetched = 136 => Result = (cpu.y + 255) % 256]_vars

\* LDX #$FF; INX has left x = 0, Z = 1, N = 0
C21_Witness ==
    /\ Len(hist) = 2
    /\ IsStep(hist[1], 162) /\ RamAt(Cur, hist[1].addr + 1) = 255
    /\ IsStep(hist[2], 232)
    /\ cpu.x = 0 /\ cpu.z = 1 /\ cpu.n = 0

\* C22: a step of CMP with accumulator a and operand m sets C = (a >= m),
\* Z = (a = m) and N = bit 7 of (a - m) mod 256, and leaves a, x, y, sp,
\* the flags I, D, B, V and the memory unchanged.
C22_Compare ==
    [][(Stepped /\ Fetched \in CmpOps) =>
         LET a == cpu.a
             m == OperandByte
         IN /\ Fetched = 201 => m = RamAt(Cur, cpu.pc + 1)
            /\ cpu' = [cpu EXCEPT !.c = IF a >= m THEN 1 ELSE 0,
                                  !.z = IF a = m THEN 1 ELSE 0,
                                  !.n = ((a - m + 256) % 256) \div 128,
                                  !.pc = cpu'.pc]
            /\ MemoryKept({})]_vars

\* LDA #$00; CMP #$80 with V set has left C = 0, Z = 0, N = 1, V = 1
C22_Witness ==
    /\ Len(hist) = 2
    /\ IsStep(hist[2], 201) /\ RamAt(Cur, hist[2].addr + 1) = 128
    /\ cpu.a = 0 /\ cpu.c = 0 /\ cpu.z = 0 /\ cpu.n = 1 /\ cpu.v = 1

BranchOpcodes == {240, 208, 176, 144, 48, 16, 112, 80}

\* the offset byte after the branch at pc, as a signed number
Offset ==
    LET o == memory_read(Cur, U16(cpu.pc + 1))
    IN IF o < 128 THEN o ELSE o - 256

\* C23: a step of BEQ, BNE, BCS, BCC, BMI, BPL, BVS or BVC at p with
\* offset byte o ends with pc = p + 2 + signed(o) mod 65536 when the
\* branch's condition holds and with pc = p + 2 otherwise; registers,
\* flags and memory are unchanged.
C23_Branch ==
    [][(Stepped /\ Fetched \in BranchOpcodes) =>
         /\ cpu' = [cpu EXCEPT !.pc = IF BranchTaken
                                      THEN (cpu.pc + 2 + Offset + 65536) % 65536
                                      ELSE (cpu.pc + 2) % 65536]
         /\ MemoryKept({})]_vars

\* a branch at $0010 with offset $80 was taken to $FF92
C23_Witness ==
    /\ Len(hist) = 1
    /\ hist[1].op = "step" /\ hist[1].pc = 16 /\ hist[1].val \in BranchOpcodes
    /\ RamAt(Cur, 17) = 128
    /\ cpu.pc = 65426


\* C24: a step of JMP (ptr) reads the target's low byte at ptr and its
\* high byte at ptr + 1, except that for a pointer whose low byte is $FF
\* the high byte comes from ptr & $FF00, the first byte of the same page.
C24_IndirectJump ==
    [][(Stepped /\ Fetched = 108) =>
         LET ptr == OperandWord
             high == IF ptr % 256 = 255 THEN (ptr \div 256) * 256
                     ELSE (ptr + 1) % 65536
         IN cpu' = [cpu EXCEPT !.pc = memory_read(Cur, ptr)
                                       + 256 * memory_read(Cur, high)]]_vars

\* JMP ($20FF) at $0800 with $20FF = $34, $2100 = $12, $2000 = $CD has
\* gone to $CD34
C24_Witness ==
    /\ Len(hist) = 1
    /\ IsStep(hist[1], 108) /\ hist[1].pc = 2048
    /\ RamAt(Cur, 2049) = 255 /\ RamAt(Cur, 2050) = 32
    /\ RamAt(Cur, 8447) = 52 /\ RamAt(Cur, 8448) = 18 /\ RamAt(Cur, 8192) = 205
    /\ cpu.pc = 52532

\* the address (zp),Y names for the instruction at pc: the pointer's low
\* byte at zp, its high byte at (zp + 1) mod 256, plus y mod 65536
IndexedAddress ==
    LET zp == memory_read(Cur, U16(cpu.pc + 1))
        base == memory_read(Cur, zp) + 256 * memory_read(Cur, (zp + 1) % 256)
    IN (base + cpu.y) % 65536

\* C25: LDA, CMP and STA with (zp),Y addressing use the byte at
\* (mem[zp] | mem[(zp + 1) & $FF] << 8) + y mod 65536: the pointer's high
\* byte is fetched from page 0 also when zp = $FF.
C25_IndirectIndexed ==
    [][(Stepped /\ Fetched \in {177, 209, 145}) =>
         LET m == memory_read(Cur, IndexedAddress)
         IN /\ Fetched = 177 => cpu'.a = m /\ MemoryKept({})
            /\ Fetched = 209 =>
                 /\ cpu'.c = (IF cpu.a >= m THEN 1 ELSE 0)
                 /\ cpu'.z = (IF cpu.a = m THEN 1 ELSE 0)
                 /\ MemoryKept({})
            /\ Fetched = 145 =>
                 [Nxt EXCEPT !.cpu = cpu, !.cycles = cycles]
                     = memory_write(Cur, IndexedAddress, cpu.a)]_vars

\* LDY #5; LDA ($FF),Y with $FF = $10 and $00 = $20 has loaded the byte
\* at $2015, not the one at $2115 that a pointer read from $0100 names
C25_Witness ==
    /\ Len(hist) = 2
    /\ IsStep(hist[2], 177) /\ RamAt(Cur, hist[2].addr + 1) = 255
    /\ RamAt(Cur, 255) = 16 /\ RamAt(Cur, 0) = 32 /\ RamAt(Cur, 256) = 33
    /\ cpu.y = 5
    /\ RamAt(Cur, 8213) = 85 /\ RamAt(Cur, 8469) = 201
    /\ cpu.a = 85


-----------------------------------------------------------------------------
(* Properties of the I/O region, the ROM images and the loaders *)

Called(op) == Len(hist') = Len(hist) + 1 /\ New.op = op

\* C26: a write of v to an address in $D000..$DFFF stores v in RAM, and a
\* read of the address then returns v, when I/O is enabled or when I/O and
\* the character ROM are both disabled; with I/O disabled and the
\* character ROM enabled the write changes neither RAM nor the character
\* ROM and a read of the address returns the character ROM's byte.
C26_IoRegion ==
    [][(Called("write") /\ New.addr >= IO_REGION_START
                        /\ New.addr <= IO_REGION_END) =>
         IF ~io_enabled /\ char_rom_enabled
         THEN /\ ram' = ram /\ char_rom' = char_rom
              /\ memory_read(Nxt, New.addr)
                     = CharAt(Nxt, New.addr - IO_REGION_START)
         ELSE /\ RamAt(Nxt, New.addr) = New.val
              /\ memory_read(Nxt, New.addr) = New.val]_vars

\* C27: write, load, step, interrupt and reset leave the BASIC, KERNAL and
\* character ROM images as they are; only the ROM loads change them.
C27_RomImagesKept ==
    [][(\E op \in {"write", "load", "step", "interrupt", "reset"} : Called(op))
           => UNCHANGED <<basic_rom, kernal_rom, char_rom>>]_vars

\* with BASIC and KERNAL ROM enabled the program has stored $42 to $A000,
\* $D000 and $FFFF; only the byte in the I/O region arrived
C27_Witness ==
    /\ Len(hist) = 4
    /\ \A k \in 1..4 : hist[k].op = "step"
    /\ hist[4].pc = 49160 /\ hist[4].val = 141
    /\ basic_rom_enabled /\ kernal_rom_enabled
    /\ RamAt(Cur, 53248) = 66 /\ RamAt(Cur, 40960) = 0 /\ RamAt(Cur, 65535) = 0
    /\ memory_read(Cur, 40960) = 234 /\ cpu.a = 66

\* C28: load(addr, bytes) copies bytes into RAM from addr on, all of them
\* when addr + length <= 65536 and otherwise the first 65536 - addr, with
\* the warning; no byte outside 0..65535 is written, every other RAM byte
\* and the rest of the machine state are as before, and the call returns.
C28_LoadTruncates ==
    [][Called("load") =>
         LET addr == New.addr
             data == New.val
             copied == IF addr + Len(data) > 65536 THEN 65536 - addr
                       ELSE Len(data)
         IN /\ \A k \in 1..copied : RamAt(Nxt, addr + k - 1) = data[k]
            /\ DOMAIN ram' \subseteq 0..65535
            /\ MemoryKept(addr..(addr + copied - 1))
            /\ cpu' = cpu /\ cycles' = cycles
            /\ New.res = 1 <=> addr + Len(data) > 65536]_vars

\* the load of four bytes at $FFFE has copied two and warned
C28_Witness ==
    /\ hist # <<>> /\ Last.op = "load" /\ Last.addr = 65534
    /\ Len(Last.val) = 4 /\ Last.res = 1
    /\ RamAt(Cur, 65534) = 1 /\ RamAt(Cur, 65535) = 2
    /\ RamAt(Cur, 0) = 47 /\ RamAt(Cur, 1) = 55

\* the image a ROM load names
Image(s, rom) ==
    CASE rom = "basic_rom" -> s.basic_rom
      [] rom = "kernal_rom" -> s.kernal_rom
      [] rom = "char_rom" -> s.char_rom

ImageFill(rom) == IF rom = "char_rom" THEN 0 ELSE 234

\* C29: a ROM load whose file cannot be opened returns 0 and changes
\* nothing; a load that opens the file returns 1, puts the bytes read at
\* the start of the image, leaves the image's other bytes, the other
\* images, RAM and the banking flags as they were, and rebuilds the page
\* table, so that every read then follows the banking flags.
C29_RomLoad ==
    [][Called("load_rom") =>
         LET rom == New.addr
             opened == New.val[1]
             data == New.val[2]
         IN /\ cpu' = cpu /\ cycles' = cycles
            /\ IF ~opened
               THEN New.res = 0 /\ MemoryKept({})
               ELSE /\ New.res = 1
                    /\ \A k \in 1..Len(data) :
                          Get(Image(Nxt, rom), k - 1, ImageFill(rom)) = data[k]
                    /\ \A i \in (DOMAIN Image(Cur, rom)
                                    \cup DOMAIN Image(Nxt, rom))
                                  \ (0..(Len(data) - 1)) :
                          Get(Image(Nxt, rom), i, ImageFill(rom))
                              = Get(Image(Cur, rom), i, ImageFill(rom))
                    /\ \A other \in {"basic_rom", "kernal_rom", "char_rom"}
                                      \ {rom} :
                          Image(Nxt, other) = Image(Cur, other)
                    /\ UNCHANGED <<ram, basic_rom_enabled, kernal_rom_enabled,
                                   char_rom_enabled, io_enabled>>
                    /\ \A a \in ProbeAddrs :
                          memory_read(Nxt, a) = ByteByFlags(Nxt, a)]_vars

\* after a load onto the port and a port write that left the page table
\* stale, a two-byte character ROM file was loaded: the image starts with
\* the two bytes, and the page table shows the character ROM
C29_Witness ==
    /\ Len(hist) = 4
    /\ Last.op = "load_rom" /\ Last.addr = "char_rom" /\ Last.res = 1
    /\ hist[2].op = "load" /\ hist[3].op = "write" /\ hist[3].addr = 1
    /\ CharAt(Cur, 0) = 17 /\ CharAt(Cur, 1) = 34 /\ CharAt(Cur, 2) = 0
    /\ ~io_enabled /\ char_rom_enabled
    /\ memory_read(Cur, 53248) = 17


-----------------------------------------------------------------------------
(* Properties of the stack accesses *)

\* the k stack bytes a push sequence starting at stack pointer sp writes
Pushed(sp, k) == { StackAddr(sp, j) : j \in 0..(k - 1) }

\* the stack accesses of the transition are those of pushing k bytes from
\* the old stack pointer: only these k bytes of page 1 change, and the
\* stack pointer ends k lower modulo 256, or as it was when the bytes are
\* pulled again
PushesOnly(k, pulled) ==
    /\ Pushed(cpu.sp, k) \subseteq 256..511
    /\ MemoryKept(Pushed(cpu.sp, k))
    /\ cpu'.sp = (IF pulled THEN cpu.sp ELSE (cpu.sp + 256 - k) % 256)

\* C30: sp stays in 0..255 and pc in 0..65535; JSR pushes two bytes and an
\* interrupt that is taken three, at $0100 + sp with sp decremented modulo
\* 256 after each, so that a push at sp = 0 writes $0100 and leaves
\* sp = $FF; RTS and the KERNAL trap pull two bytes from $0100 + sp with
\* sp incremented modulo 256 before each, so that a pull at sp = $FF reads
\* $0100 and leaves sp = 0.  No byte outside $0100..$01FF is written or
\* read by these accesses.
C30_StackPage ==
    [][/\ cpu.sp \in 0..255 /\ cpu.pc \in 0..65535
       /\ cpu'.sp \in 0..255 /\ cpu'.pc \in 0..65535
       /\ (Stepped /\ Fetched = 32) => PushesOnly(2, IsTrap)
       /\ (Stepped /\ IsTrap) => cpu'.pc = (cpu.pc + 3) % 65536
       /\ (Stepped /\ Fetched = 96) =>
            /\ cpu'.pc = (RamAt(Cur, StackAddr(cpu.sp, -1))
                          + 256 * RamAt(Cur, StackAddr(cpu.sp, -2)) + 1)
                         % 65536
            /\ cpu'.sp = (cpu.sp + 2) % 256
            /\ MemoryKept({})
       /\ (Interrupted /\ Honoured) => PushesOnly(3, FALSE)
       /\ (Interrupted /\ ~Honoured) => PushesOnly(0, FALSE)]_vars

\* JSR at sp = 0 has written the return address's high byte to $0100 and
\* its low byte to $01FF; sp is $FE, and $00FF and $0200 hold what they
\* held
C30_Witness ==
    /\ Len(hist) = 1
    /\ IsStep(hist[1], 32) /\ hist[1].sp = 0
    /\ cpu.sp = 254 /\ cpu.pc = 49168
    /\ RamAt(Cur, 256) = 192 /\ RamAt(Cur, 511) # 188
    /\ RamAt(Cur, 255) = 205 /\ RamAt(Cur, 512) = 239


-----------------------------------------------------------------------------
(* Properties of the start-up sequence *)

\* C31: in the state init_emulator() leaves, the bytes read at $FFFC and
\* $FFFD are $00 and $08 and pc is $0800, and a first step executes the
\* LDA #$01 at $0800.
C31_BootVector ==
    /\ (alive /\ hist = <<>>) =>
         /\ memory_read(Cur, 65532) = 0 /\ memory_read(Cur, 65533) = 8
         /\ cpu.pc = 2048
    /\ (hist # <<>> /\ hist[1].op = "step") =>
         hist[1].pc = 2048 /\ hist[1].val = 169


-----------------------------------------------------------------------------
(* Properties of banking changes made by the program *)

\* the last call was the step of the STA $01 at $9FFE, and the byte it
\* stored differs in bits 0..2 from the byte the port held before
AfterBankStore ==
    /\ hist # <<>> /\ IsStep(Last, 133) /\ Last.pc = 40958
    /\ RamAt(Cur, 40959) = 1
    /\ RamAt(Cur, 1) % 8 # RamAt(Cur, 2) % 8

VectorByFlags(vector) ==
    ByteByFlags(Cur, vector) + 256 * ByteByFlags(Cur, vector + 1)

\* C32: after a step has stored to $0001 a byte that changes bits 0..2,
\* the banking flags are the decode of that byte, and the call that
\* follows reads under them: a step fetches its opcode and operand from
\* the region the flags select for pc and pc + 1, a reset loads pc from
\* the bytes they select for $FFFC/$FFFD, and an interrupt that is taken
\* from those for $FFFA/$FFFB (NMI) or $FFFE/$FFFF (IRQ).
C32_BankingSeen ==
    [][AfterBankStore =>
         /\ Flags(Cur) = PortDecode(RamAt(Cur, 1))
         /\ Stepped =>
              /\ New.val = ByteByFlags(Cur, cpu.pc)
              /\ ByteByFlags(Cur, cpu.pc) = 169 =>
                   cpu'.a = ByteByFlags(Cur, cpu.pc + 1)
                       /\ cpu'.pc = cpu.pc + 2
              /\ ByteByFlags(Cur, cpu.pc) = 234 =>
                   cpu' = [cpu EXCEPT !.pc = cpu.pc + 1]
         /\ Called("reset") => cpu'.pc = VectorByFlags(RESET_VECTOR)
         /\ (Interrupted /\ Honoured) =>
              cpu'.pc = VectorByFlags(IF New.val = 1 THEN NMI_VECTOR
                                      ELSE IRQ_VECTOR)]_vars

\* the program has banked the KERNAL ROM out with port byte $35, and the
\* reset that followed took pc = $0800 from the RAM under the ROM, whose
\* image still holds $EA there
C32_Witness ==
    /\ Len(hist) = 2
    /\ IsStep(hist[1], 133) /\ hist[1].pc = 40958
    /\ hist[2].op = "reset"
    /\ RamAt(Cur, 1) = 53 /\ RamAt(Cur, 2) = 55 /\ ~kernal_rom_enabled
    /\ KernalAt(Cur, 8188) = 234 /\ RamAt(Cur, 65532) = 0
    /\ cpu.pc = 2048


-----------------------------------------------------------------------------
(* Properties of the store instructions *)

StaOps == {133, 149, 141, 157, 153, 129, 145}
StxOps == {134, 150, 142}
StyOps == {132, 148, 140}

\* the effective address of the instruction at pc
EffectiveAddress == cpu_get_operand_address(Cur, opcode_modes(Fetched))

\* memory_write discards a write to this address under the present banking
WriteProtected(addr) ==
    \/ basic_rom_enabled /\ addr \in 40960..49151
    \/ kernal_rom_enabled /\ addr \in 57344..65535
    \/ ~io_enabled /\ char_rom_enabled /\ addr \in 53248..57343

RegistersKept ==
    /\ cpu'.a = cpu.a /\ cpu'.x = cpu.x /\ cpu'.y = cpu.y
    /\ cpu'.c = cpu.c /\ cpu'.z = cpu.z /\ cpu'.i = cpu.i /\ cpu'.d = cpu.d
    /\ cpu'.b = cpu.b /\ cpu'.v = cpu.v /\ cpu'.n = cpu.n

\* the RAM and the three ROM images are as before, except for the RAM bytes
\* at the addresses in except
BytesKept(except) ==
    /\ \A a \in ((DOMAIN ram) \cup (DOMAIN ram')) \ except :
          RamAt(Nxt, a) = RamAt(Cur, a)
    /\ UNCHANGED <<basic_rom, kernal_rom, char_rom>>

\* C33: a step executing STA, STX or STY leaves a, x, y, sp and the seven
\* flags as they were; it changes no byte of memory when the effective
\* address is write-protected by the banking, and otherwise only the RAM
\* byte at the effective address, which becomes the register stored.  A
\* step executing TXS makes sp equal to x, whatever x is, moves pc by one
\* and changes nothing else.
C33_StoreFrame ==
    [][Stepped =>
         /\ Fetched \in StaOps \cup StxOps \cup StyOps =>
              /\ RegistersKept /\ cpu'.sp = cpu.sp
              /\ WriteProtected(EffectiveAddress) => BytesKept({})
              /\ ~WriteProtected(EffectiveAddress) =>
                   /\ BytesKept({EffectiveAddress})
                   /\ RamAt(Nxt, EffectiveAddress) =
                        IF Fetched \in StaOps THEN cpu.a
                        ELSE IF Fetched \in StxOps THEN cpu.x ELSE cpu.y
         /\ Fetched = 154 =>
              /\ cpu' = [cpu EXCEPT !.sp = cpu.x, !.pc = U16(cpu.pc + 1)]
              /\ MemoryKept({})]_vars

\* STA $FFFE has been executed with a = $35 while the KERNAL ROM was in:
\* nothing was stored, and the flags set before it are still there
C33_Witness ==
    /\ Len(hist) = 1 /\ IsStep(Last, 141) /\ Last.pc = 49158
    /\ RamAt(Cur, 49159) = 254 /\ RamAt(Cur, 49160) = 255
    /\ kernal_rom_enabled /\ RamAt(Cur, 65534) = 0
    /\ cpu.a = 53 /\ cpu_get_status(Cur) = 227


-----------------------------------------------------------------------------
(* Properties of indexed addressing *)

\* the byte and the word after the opcode at pc, read from RAM
OperandLow == RamAt(Cur, cpu.pc + 1)
OperandHigh == RamAt(Cur, cpu.pc + 2)

\* the effective address of the instruction at pc, by its addressing mode
IndexedTarget ==
    CASE Fetched \in {180, 181, 148, 149} -> (OperandLow + cpu.x) % 256
      [] Fetched \in {182, 150} -> (OperandLow + cpu.y) % 256
      [] Fetched \in {188, 189, 157} ->
           (OperandLow + 256 * OperandHigh + cpu.x) % 65536
      [] Fetched \in {185, 190, 153} ->
           (OperandLow + 256 * OperandHigh + cpu.y) % 65536
      [] Fetched \in {161, 129} ->
           LET zp == (OperandLow + cpu.x) % 256
           IN memory_read(Cur, zp) + 256 * memory_read(Cur, (zp + 1) % 256)

\* C34: an instruction with indexed addressing works on the byte at
\* (b + index) mod 256 for zp,X and zp,Y, at (word + index) mod 65536 for
\* abs,X and abs,Y, and for (zp,X) at the word held at zp and
\* (zp + 1) mod 256 with zp = (b + x) mod 256: a load puts that byte in
\* its register, a store writes its register there.
C34_IndexedAddress ==
    [][(Stepped /\ Fetched \in AddrOpcodes) =>
         /\ Fetched \in LoadA => cpu'.a = memory_read(Cur, IndexedTarget)
         /\ Fetched \in LoadX => cpu'.x = memory_read(Cur, IndexedTarget)
         /\ Fetched \in LoadY => cpu'.y = memory_read(Cur, IndexedTarget)
         /\ Fetched \in StaOps \cup StxOps \cup StyOps =>
              [Nxt EXCEPT !.cpu = cpu, !.cycles = cycles]
                  = memory_write(Cur, IndexedTarget,
                                 IF Fetched \in StaOps THEN cpu.a
                                 ELSE IF Fetched \in StxOps THEN cpu.x
                                 ELSE cpu.y)
         /\ cpu'.pc = cpu.pc + opcode_sizes(Fetched)]_vars

\* STA ($FE,X) with x = 1 has taken its pointer from $FF and $00, which
\* hold $31 and $34, and stored a = $A7 at $3431; $0100 holds $09, and
\* $0931 was not written
C34_Witness ==
    /\ Len(hist) = 1 /\ IsStep(Last, 129)
    /\ RamAt(Cur, Last.pc + 1) = 254 /\ cpu.x = 1
    /\ RamAt(Cur, 255) = 49 /\ RamAt(Cur, 0) = 52 /\ RamAt(Cur, 256) = 9
    /\ cpu.a = 167
    /\ RamAt(Cur, 13361) = 167 /\ RamAt(Cur, 2353) = 0


-----------------------------------------------------------------------------
(* Properties of the cycle counter *)

\* the counter has advanced by k, without passing 2^32
Advanced(k) == cycles' = Add32(cycles, U32(k)) /\ Carry32(cycles, U32(k)) = 0

\* C35: counters below 2^32 - 7 taken, a step advances the cycle counter by
\* the table's cost of the opcode it fetched, which is 2 for an opcode
\* without a table entry and between 2 and 6 for every opcode; an
\* interrupt that is taken advances it by 7; an IRQ that is ignored,
\* set_pc, set_status and the memory operations leave it as it is; a
\* reset makes it 0; so no call but reset makes it smaller.
C35_CycleCounter ==
    [][Len(hist') = Len(hist) + 1 =>
         /\ Stepped =>
              /\ Advanced(opcode_cycles(Fetched))
              /\ \E k \in 2..6 : Advanced(k)
              /\ Fetched \notin ImplementedOpcodes => Advanced(2)
         /\ Interrupted => IF Honoured THEN Advanced(7) ELSE cycles' = cycles
         /\ New.op \in {"set_pc", "set_status", "write", "load"} =>
              cycles' = cycles
         /\ Called("reset") => cycles' = U32(0)
         /\ ~Called("reset") => ~Less32(cycles', cycles)]_vars

\* the undefined opcode $02 has been stepped over and an NMI taken after
\* it: the counter stands at 2 + 7
C35_Witness ==
    /\ Len(hist) = 2
    /\ IsStep(hist[1], 2) /\ hist[1].pc = 49152
    /\ hist[2].op = "interrupt" /\ hist[2].val = 1
    /\ cycles = U32(9)


-----------------------------------------------------------------------------
(* Properties of the flags *)

\* no cpu_set_status call has been made up to and including this one
NoSetStatus == \A k \in 1..Len(hist') : hist'[k].op # "set_status"

\* C36: a step, made by the host or by cpu_execute, leaves the I, D, B and
\* V flags as they were.  As long as no cpu_set_status call has been made
\* since cpu_init, I is 1 after every call, and an IRQ changes neither
\* registers nor flags nor the cycle counter nor memory.
C36_FlagsKept ==
    [][Len(hist') = Len(hist) + 1 =>
         /\ Stepped =>
              /\ cpu'.i = cpu.i /\ cpu'.d = cpu.d
              /\ cpu'.b = cpu.b /\ cpu'.v = cpu.v
         /\ NoSetStatus =>
              /\ cpu.i = 1 /\ cpu'.i = 1
              /\ (Interrupted /\ New.val = 0) =>
                   cpu' = cpu /\ cycles' = cycles /\ MemoryKept({})]_vars

\* an IRQ was requested and ignored, then cpu_execute(1) ran the undefined
\* opcode $02 and returned: sp is still $FD, pc is $C001 and I is 1
C36_Witness ==
    /\ Len(hist) = 4
    /\ hist[1].op = "interrupt" /\ hist[1].val = 0
    /\ hist[2].op = "execute" /\ IsStep(hist[3], 2) /\ hist[4].op = "return"
    /\ cpu.pc = 49153 /\ cpu.i = 1 /\ cpu.sp = 253 /\ cycles = U32(2)

-----------------------------------------------------------------------------
(* Properties of memory_dump *)

\* the position in hist of the latest call of memory_dump, 0 if none
RECURSIVE LastDump(_)
LastDump(k) ==
    IF k = 0 \/ hist[k].op = "dump" THEN k ELSE LastDump(k - 1)

\* the number of addresses the call c should read
DumpCount(c) == IF c.val < 65536 - c.addr THEN c.val ELSE 65536 - c.addr

\* C37: memory_dump(start, length) reads the addresses start, start + 1,
\* ... in this order, min(length, 65536 - start) of them, and then
\* returns: after that many reads its loop is at its exit, and it returns
\* after no fewer.
C37_DumpReads ==
    LET k == LastDump(Len(hist))
    IN k > 0 =>
         LET c == hist[k]
             done == IF dump = <<>> THEN Len(hist) - k - 1 ELSE Len(hist) - k
         IN /\ \A j \in (k + 1)..Len(hist) :
                  hist[j].op = "read" =>
                      /\ j - k <= DumpCount(c)
                      /\ hist[j].addr = c.addr + (j - k) - 1
            /\ dump = <<>> => done = DumpCount(c)
            /\ (dump # <<>> /\ done = DumpCount(c)) => dump[1] > dump[2]


-----------------------------------------------------------------------------
(* Properties of the RAM under the ROMs *)

\* the ROM over address a is banked out after the first k calls: the port
\* holds $34 at the start
RECURSIVE RomOut(_, _)
RomOut(k, a) ==
    IF k = 0 THEN TRUE
    ELSE IF hist[k].op = "write" /\ hist[k].addr = PortAddr
    THEN IF a < 49152 THEN hist[k].val % 4 = 0
         ELSE (hist[k].val \div 2) % 2 = 0
    ELSE RomOut(k - 1, a)

\* the byte last written to a while its ROM was out, among the first k
\* calls; 0 if there is none
RECURSIVE Beneath(_, _)
Beneath(k, a) ==
    IF k = 0 THEN 0
    ELSE IF hist[k].op = "write" /\ hist[k].addr = a /\ RomOut(k - 1, a)
    THEN hist[k].val
    ELSE Beneath(k - 1, a)

RomByte(a) ==
    IF a < 49152 THEN BasicAt(Cur, a - 40960) ELSE KernalAt(Cur, a - 57344)

\* C38: for an address a under the BASIC or the KERNAL ROM, a read of a
\* made while the ROM is banked out returns the byte last written to a
\* while the ROM was banked out, whatever reads and writes of a and
\* changes of the banking were made since; a read made while the ROM is
\* banked in returns the ROM's byte.
C38_RamBeneath ==
    \A a \in RamAddrs :
        /\ RamAt(Cur, a) = Beneath(Len(hist), a)
        /\ \A k \in 1..Len(hist) :
              (hist[k].op = "read" /\ hist[k].addr = a) =>
                  hist[k].res = IF RomOut(k - 1, a) THEN Beneath(k - 1, a)
                                ELSE RomByte(a)

\* $41 was written to $E000 with the KERNAL ROM out; then the ROM was
\* banked in, a write of $43 was made and a read returned the ROM's $EA;
\* after the ROM was banked out again the read returned $41
C38_Witness ==
    /\ Len(hist) = 6
    /\ hist[1].op = "write" /\ hist[1].addr = 57344 /\ hist[1].val = 65
    /\ hist[2].op = "write" /\ hist[2].addr = PortAddr /\ hist[2].val = 55
    /\ hist[3].op = "write" /\ hist[3].addr = 57344 /\ hist[3].val = 67
    /\ hist[4].op = "read" /\ hist[4].addr = 57344 /\ hist[4].res = 234
    /\ hist[5].op = "write" /\ hist[5].addr = PortAddr /\ hist[5].val = 53
    /\ hist[6].op = "read" /\ hist[6].addr = 57344 /\ hist[6].res = 65


-----------------------------------------------------------------------------
(* Properties of cpu_execute's threshold *)

\* the cycles the steps of the call in progress have added so far
RECURSIVE CyclesSince(_)
CyclesSince(k) ==
    IF k <= CallIndex THEN 0
    ELSE opcode_cycles(hist[k].val) + CyclesSince(k - 1)

\* C39: cpu_execute(n) takes (counter + n) mod 2^32 as its threshold; for
\* n >= 1 it returns only after it has executed at least one instruction
\* and its steps have added at least n cycles to the counter, also when
\* counter + n passes 2^32.
C39_RunThreshold ==
    [][/\ Called("execute") =>
            target_cycles' = <<Add32(cycles, New.addr)>>
       /\ (Returned /\ RunN # U32(0)) =>
            /\ Last.op = "step"
            /\ RunN[1] = 0
            /\ CyclesSince(Len(hist)) >= RunN[2]]_vars

====
